---- MODULE Spec2Model ----
(***************************************************************************)
(* samsara-bus-ts: the topic/bus layer (Topic, DefaultSamsaraBus) as a     *)
(* state machine.  The backing streams are rxjs 7 subjects; their          *)
(* delivery is synchronous and nested, so an emission in flight is a frame *)
(* on a call stack and one Deliver step hands one notification to one      *)
(* observer.  No bus operation starts while a delivery is in flight        *)
(* (single-threaded run to completion) except the ones made by a callback. *)
(***************************************************************************)
EXTENDS Integers, Sequences, FiniteSets, TLC

\* ------------------------------------------------------------- bounds
MaxTopics == 2   \* Topic objects constructed
MaxSubs == 2     \* subscriptions created (consumers, connections, injections)
MaxEmits == 3    \* Topic.emit calls (envelopes constructed)
MaxBuf == 1      \* largest replayBufferSize passed to registerTopic
MaxInputs == 3   \* values the topic streams give a topology pipeline
MaxPasses == 2   \* resolution passes of one topology hook
MaxBuilders == 4 \* TopologyBuilderImpl objects constructed
MaxBuilt == 1    \* calls of build()
MaxReferences == 3 \* calls of GlobalSamsaraBus.getInstance

\* ---------------------------------------------------------- constants
TopicNames == {"a", "b"}

PublishSubject == "publishSubject"
BehaviorSubject == "behaviorSubject"
ReplaySubject == "replaySubject"
TopicType == {PublishSubject, BehaviorSubject, ReplaySubject}

\* JavaScript's undefined and null, and the caller-chosen correlation id
Undefined == 0
Null == -1
CustomId == 100

Values == {1, 2}
Payloads == Values \cup {Undefined, Null}

\* replayBufferSize left out: ReplaySubject's default, Infinity.  No buffer
\* of the model grows past MaxEmits, so this size never trims.
Infinity == MaxEmits + MaxBuf + 1
BufferSizes == (0 .. MaxBuf) \cup {Infinity}

Nullish(x) == x = Undefined \/ x = Null

\* a ?? b
Coalesce(a, b) == IF Nullish(a) THEN b ELSE a

Max(a, b) == IF a >= b THEN a ELSE b

\* the n-th value uuidv4() returns; distinct calls return distinct values
Uuid(n) == n

\* new MessageEnvelope(payload, correlationId); seq is the number of the
\* emit call that built it (0: built by the constructor of a topic).  A
\* value of the external source travels in the same record, seq its number
\* among the source's values.
MessageEnvelope(payload, correlationId, seq) ==
  [payload |-> payload, correlationId |-> correlationId, seq |-> seq]

\* ------------------------------------------------------------ mappers
\* The functions handed to connectTopics and injectStream.  "len" is total;
\* "partial" throws on the value 1.
Mappers == {"len", "partial"}
Throws(mapper, v) == mapper = "partial" /\ v = 1
Apply(mapper, v) == v + 10

\* -------------------------------------------------------------- state
VARIABLES
  registry,     \* DefaultSamsaraBus._topics: name -> Topic object (0: none)
  topics,       \* the Topic objects ever constructed, by object number
  subs,         \* the subscribers ever created, by number
  connections,  \* DefaultSamsaraBus._connections
  source,       \* the external Subject fed to injectStream
  sourceCount,  \* values the external Subject was given
  uuidCount,    \* uuidv4() calls made
  emitCount,    \* Topic.emit calls made
  stack,        \* deliveries in flight, innermost first
  unhandled,    \* errors thrown by callbacks and reported by rxjs
  ret,          \* the last bus call: its arguments, result and error
  topology,     \* useTopology: the TopologyInstance the hook was given
  nodeStreams,  \* useTopology: the memo of the resolution pass
  hook,         \* useTopology: data, error, status and the live pipeline
  emitted,      \* the values the topic streams gave the pipeline
  builders,     \* the TopologyBuilderImpl objects constructed, by number
  objects,      \* the params, topics and processors objects they refer to
  built,        \* the build() calls made and what they returned
  global        \* GlobalSamsaraBus._instance and the references handed out

vars == <<registry, topics, subs, connections, source, sourceCount, uuidCount, emitCount,
          stack, unhandled, ret, topology, nodeStreams, hook, emitted,
          builders, objects, built, global>>

\* the state of the fluent builder
fluent == <<builders, objects, built>>

\* the state of the topology hook and builder and the global singleton,
\* which no bus operation reads or writes
engine == <<topology, nodeStreams, hook, emitted, fluent, global>>

busState == <<registry, topics, subs, connections, source, stack>>

Idle == stack = <<>>

\* ------------------------------------------------------------ subjects
\* Topic._createSubject: the subject's fields.  A BehaviorSubject starts
\* with a placeholder envelope of payload undefined and a fresh uuid; a
\* ReplaySubject keeps Math.max(1, bufferSize) envelopes.
CreateSubject(type, replayBufferSize, uuid) ==
  [type |-> type,
   bufferSize |-> IF type = ReplaySubject THEN Max(1, replayBufferSize) ELSE 0,
   buffer |-> IF type = BehaviorSubject
              THEN <<MessageEnvelope(Undefined, uuid, 0)>> ELSE <<>>,
   observers |-> <<>>,
   isStopped |-> FALSE,
   hasError |-> FALSE]

\* new Topic(name, type, replayBufferSize).  requested (the buffer size asked
\* for, 0 for the other types), log (the history of the emit calls on the
\* topic) and stoppedAt (the length of the log when the subject was
\* completed or errored, -1 while it is live) are kept for the properties
\* only.
NewTopic(name, type, replayBufferSize, uuid) ==
  [name |-> name,
   subject |-> CreateSubject(type, replayBufferSize, uuid),
   externalSubscriptions |-> <<>>,
   requested |-> IF type = ReplaySubject THEN replayBufferSize ELSE 0,
   log |-> <<>>,
   stoppedAt |-> -1]

\* One emit call in a topic's log: the envelope it built, the subscriber
\* whose callback made the call (0: a caller of the bus), the number of the
\* notification that callback was handling, whether the subject was still
\* live, and whether an emission of the same topic was being delivered.
LogEntry(envelope, by, cause, live, reentrant) ==
  [env |-> envelope, by |-> by, cause |-> cause, live |-> live,
   reentrant |-> reentrant]

\* ReplaySubject._trimBuffer
TrimBuffer(buffer, bufferSize) ==
  IF Len(buffer) > bufferSize
  THEN SubSeq(buffer, Len(buffer) - bufferSize + 1, Len(buffer))
  ELSE buffer

\* What subject.next(envelope) retains: a BehaviorSubject its _value (also
\* when stopped), a ReplaySubject its trimmed buffer (unless stopped).
Retain(subject, envelope) ==
  CASE subject.type = BehaviorSubject -> <<envelope>>
    [] subject.type = ReplaySubject ->
         TrimBuffer(IF subject.isStopped THEN subject.buffer
                    ELSE Append(subject.buffer, envelope), subject.bufferSize)
    [] OTHER -> subject.buffer

\* Subject.next: one "N" notification for each observer of the snapshot
\* taken when next is called; nothing once the subject is stopped.
NextFrame(subject, envelope) ==
  IF subject.isStopped THEN <<>>
  ELSE [i \in 1 .. Len(subject.observers) |->
          [sub |-> subject.observers[i], sig |-> "N", env |-> envelope]]

\* What a new subscriber is sent by subject.subscribe: the retained
\* envelopes of a BehaviorSubject (unless stopped) or ReplaySubject, then the
\* subject's error or completion if it has stopped.
SubscribeFrame(subject, s) ==
  LET replay == IF subject.type = ReplaySubject
                   \/ (subject.type = BehaviorSubject /\ ~subject.isStopped)
                THEN [i \in 1 .. Len(subject.buffer) |->
                        [sub |-> s, sig |-> "N", env |-> subject.buffer[i]]]
                ELSE <<>>
      final == IF subject.hasError
               THEN <<[sub |-> s, sig |-> "E", env |-> MessageEnvelope(Undefined, Undefined, 0)]>>
               ELSE IF subject.isStopped
               THEN <<[sub |-> s, sig |-> "C", env |-> MessageEnvelope(Undefined, Undefined, 0)]>>
               ELSE <<>>
  IN replay \o final

\* Subject._innerSubscribe: a stopped subject takes no observer
AddObserver(subject, s) ==
  IF subject.isStopped THEN subject
  ELSE [subject EXCEPT !.observers = Append(@, s)]

\* an unsubscribe that drops every observer of the subject
RemoveAll(seq, x) == <<>>

\* Subscription.unsubscribe: the subject's observers without x
Remove(seq, x) == SelectSeq(seq, LAMBDA y : y # x)

\* a frame is pushed only if it holds a notification
Push(frame, stk) == IF frame = <<>> THEN stk ELSE <<frame>> \o stk

\* emit that ignores the correlationId it is given
EmitIdAlwaysFresh(correlationId, uuid) == uuid

\* --------------------------------------------------------------- Topic
\* Topic.emit(message, correlationId): the id used
EmitId(correlationId, uuid) == Coalesce(correlationId, uuid)

\* Topic.emit: the topic after this._subject.next(envelope)
EmitTopic(topic, envelope, by, cause, reentrant) ==
  [topic EXCEPT !.subject.buffer = Retain(topic.subject, envelope),
                !.log = Append(@, LogEntry(envelope, by, cause,
                                           ~topic.subject.isStopped, reentrant))]

\* Topic.getStream: map(payload !== undefined ? payload : null), then
\* filter(payload !== null); StreamFilterAll is a filter that lets every
\* payload through
StreamMap(envelope) ==
  IF envelope.payload # Undefined THEN envelope.payload ELSE Null
StreamFilterAll(payload) == TRUE
StreamFilter(payload) == payload # Null
StreamPasses(envelope) == StreamFilter(StreamMap(envelope))

\* ----------------------------------------------------------------- Bus
\* this._topics.has(name)
TopicsHas(name) == registry[name] # 0

\* The record of a bus call: the operation, whether every topic name it was
\* given was registered when it was called, the error it threw ("none": it
\* returned), the value it returned and, for emit, the number of the call
\* and the correlationId argument.
Ret(op, known, err, val, seq) ==
  [op |-> op, known |-> known, err |-> err, val |-> val, seq |-> seq,
   arg |-> Undefined]

NoRet == Ret("none", TRUE, "none", 0, 0)

\* whether an emission of topic tid is being delivered: some frame holds a
\* notification for an observer of its subject
InFlight(tid) ==
  \E f \in 1 .. Len(stack) : \E i \in 1 .. Len(stack[f]) :
    /\ stack[f][i].sig = "N"
    /\ subs[stack[f][i].sub].kind # "inject"
    /\ subs[stack[f][i].sub].topic = tid

Registered(name) == registry[name] # 0

\* useTopology before the first render: no TopologyInstance, an empty memo,
\* and useState's initial data (undefined), error (undefined, "none" here)
\* and status; insts are the subscriptions of the pipeline, calls the
\* invocations of processor functions, outputs the values handed to the
\* consumer's next handler, warned the nodes console.warn named, completed
\* whether the output stream completed, cause the emission being handled,
\* params the validatedParams of the pass, rendered the params of the last
\* render, thrown the error a render threw, pass the number of resolution
\* passes, since and base the values given and delivered before this pass,
\* pushed the emissions onto whose payload args.push appended the binding
NoTopology ==
  [topics |-> <<>>, processors |-> <<>>, outputNode |-> "", paramTypes |-> <<>>]

\* The values a parameter is bound to, by typeof and Array.isArray, with
\* the number itself for a number; NoValue is undefined, an absent key
JsValue(kind, num) == [kind |-> kind, num |-> num]
NoValue == JsValue("undefined", 0)

\* the parameter names of the definitions, and the binding {}
ParamNames == {"room", "limit"}
EmptyBinding == [name \in ParamNames |-> NoValue]

\* the memo of a resolution pass: the streams set, the streams constructed
\* in order, the nodes whose createObservable call has not returned, the
\* topic names looked up on the bus in order, and the error thrown
\* GlobalSamsaraBus before the first getInstance: the static _instance is
\* undefined (0), no instance was constructed and no reference handed out
NoInstance == [instance |-> 0, made |-> 0, references |-> <<>>]

NoStreams ==
  [streams |-> {}, built |-> <<>>, failed |-> FALSE, open |-> {}, looked |-> <<>>,
   error |-> "none"]

IdleHook ==
  [mounted |-> FALSE, data |-> Undefined, error |-> "none", status |-> "idle",
   insts |-> <<>>, calls |-> <<>>, outputs |-> <<>>, warned |-> {},
   completed |-> FALSE, cause |-> 0, params |-> EmptyBinding,
   rendered |-> EmptyBinding, thrown |-> "none", pass |-> 0, since |-> 0, base |-> 0,
   pushed |-> <<>>]

Init ==
  /\ registry = [n \in TopicNames |-> 0]
  /\ topics = <<>>
  /\ subs = <<>>
  /\ connections = <<>>
  /\ source = CreateSubject(PublishSubject, 0, 0)
  /\ sourceCount = 0
  /\ uuidCount = 0
  /\ emitCount = 0
  /\ stack = <<>>
  /\ unhandled = FALSE
  /\ ret = NoRet
  /\ topology = NoTopology
  /\ nodeStreams = NoStreams
  /\ hook = IdleHook
  /\ emitted = <<>>
  /\ builders = <<>>
  /\ objects = <<>>
  /\ built = <<>>
  /\ global = NoInstance

\* registerTopic without the this._topics.has(name) check: the second
\* registration replaces the topic
RegisterTopicOverwrite(name, type, replayBufferSize) ==
  /\ Idle
  /\ Len(topics) < MaxTopics
  /\ topics' = Append(topics, NewTopic(name, type, replayBufferSize, Uuid(uuidCount + 1)))
  /\ registry' = [registry EXCEPT ![name] = Len(topics) + 1]
  /\ uuidCount' = IF type = BehaviorSubject THEN uuidCount + 1 ELSE uuidCount
  /\ ret' = Ret("registerTopic", Registered(name), "none", Len(topics) + 1, 0)
  /\ UNCHANGED <<subs, connections, source, sourceCount, emitCount, stack, unhandled>>
  /\ UNCHANGED engine

\* DefaultSamsaraBus.registerTopic(name, type, replayBufferSize)
RegisterTopic(name, type, replayBufferSize) ==
  /\ Idle
  /\ IF TopicsHas(name)
     THEN /\ ret' = Ret("registerTopic", Registered(name), "exists", 0, 0)
          /\ UNCHANGED <<registry, topics, uuidCount>>
     ELSE /\ Len(topics) < MaxTopics
          /\ topics' = Append(topics, NewTopic(name, type, replayBufferSize, Uuid(uuidCount + 1)))
          /\ registry' = [registry EXCEPT ![name] = Len(topics) + 1]
          /\ uuidCount' = IF type = BehaviorSubject THEN uuidCount + 1 ELSE uuidCount
          /\ ret' = Ret("registerTopic", Registered(name), "none", Len(topics) + 1, 0)
  /\ UNCHANGED <<subs, connections, source, sourceCount, emitCount, stack, unhandled>>
  /\ UNCHANGED engine

\* DefaultSamsaraBus.getTopic(name)
GetTopic(name) ==
  /\ Idle
  /\ ret' = IF TopicsHas(name)
            THEN Ret("getTopic", Registered(name), "none", registry[name], 0)
            ELSE Ret("getTopic", Registered(name), "missing", 0, 0)
  /\ UNCHANGED <<registry, topics, subs, connections, source, sourceCount, uuidCount,
                 emitCount, stack, unhandled>>
  /\ UNCHANGED engine

\* ---------------------------------------------------------- subscribers
\* A subscriber: the end of the pipe a subscribe call builds.
\*   "raw"     a consumer of Topic.getRawStream
\*   "stream"  a consumer of Topic.getStream; its callback may answer the
\*             value 1 by calling bus.emit(react, 2) (react "": it does not)
\*   "conn"    the observer connectTopics subscribes to the source's stream
\*   "inject"  the observer Topic.injectStream subscribes to the source
\* got holds what its next callback was called with, signal the error ("E")
\* or completion ("C") it was sent, closed whether it is unsubscribed.
\* since and until are the lengths of the observed topic's log (for an
\* injection: the number of values the source had produced) when the
\* subscriber was subscribed and when it unsubscribed or was stopped by a
\* signal, released the number of unsubscribe calls on its subscription
\* (all three kept for the properties only).
NewSub(kind, topic, dest, mapper, provider, react) ==
  [kind |-> kind, topic |-> topic, dest |-> dest, mapper |-> mapper,
   provider |-> provider, react |-> react, closed |-> FALSE, got |-> <<>>,
   signal |-> "",
   since |-> IF topic = 0 THEN sourceCount ELSE Len(topics[topic].log),
   until |-> 0,
   released |-> 0]

\* The topic whose log a subscriber's since and until count: the one it
\* observes, for an injection the one it emits to.
Observed(sub) == IF sub.kind = "inject" THEN sub.dest ELSE sub.topic

\* The topic with its subject replaced by the subject after error() or
\* complete()
Stopped(topic, subject) ==
  [topic EXCEPT !.subject = subject,
                !.stoppedAt = IF topic.subject.isStopped THEN @ ELSE Len(topic.log)]

\* a complete() that drops the observers and leaves the subject open
SubjectCompleteKeepOpen(subject) == [subject EXCEPT !.observers = <<>>]

\* Subject.complete(): the stopped subject, and the "C" sent to each observer
SubjectComplete(subject) ==
  IF subject.isStopped THEN subject
  ELSE [subject EXCEPT !.isStopped = TRUE, !.observers = <<>>]

CompleteFrame(subject) ==
  IF subject.isStopped THEN <<>>
  ELSE [i \in 1 .. Len(subject.observers) |->
          [sub |-> subject.observers[i], sig |-> "C",
           env |-> MessageEnvelope(Undefined, Undefined, 0)]]

\* an error handler that does not stop the subject
SubjectErrorIgnored(subject) == subject

\* Subject.error(err): the stopped subject, and the "E" sent to each observer
SubjectError(subject) ==
  IF subject.isStopped THEN subject
  ELSE [subject EXCEPT !.isStopped = TRUE, !.hasError = TRUE, !.observers = <<>>]

ErrorFrame(subject) ==
  IF subject.isStopped THEN <<>>
  ELSE [i \in 1 .. Len(subject.observers) |->
          [sub |-> subject.observers[i], sig |-> "E",
           env |-> MessageEnvelope(Undefined, Undefined, 0)]]

\* DefaultSamsaraBus.emit(topicName, message, correlationId)
Emit(name, message, correlationId) ==
  /\ Idle
  /\ IF ~TopicsHas(name)
     THEN /\ ret' = Ret("emit", Registered(name), "missing", 0, 0)
          /\ UNCHANGED <<topics, uuidCount, emitCount, stack>>
     ELSE LET tid == registry[name]
              id == EmitId(correlationId, Uuid(uuidCount + 1))
              envelope == MessageEnvelope(message, id, emitCount + 1)
          IN /\ emitCount < MaxEmits
             /\ topics' = [topics EXCEPT ![tid] = EmitTopic(@, envelope, 0, 0, FALSE)]
             /\ stack' = Push(NextFrame(topics[tid].subject, envelope), stack)
             /\ uuidCount' = IF Nullish(correlationId) THEN uuidCount + 1 ELSE uuidCount
             /\ emitCount' = emitCount + 1
             /\ ret' = [Ret("emit", Registered(name), "none", id, emitCount + 1)
                        EXCEPT !.arg = correlationId]
  /\ UNCHANGED <<registry, subs, connections, source, sourceCount, unhandled>>
  /\ UNCHANGED engine

\* bus.getStream(name).subscribe(callback)
GetStream(name, react) ==
  /\ Idle
  /\ IF ~TopicsHas(name)
     THEN /\ ret' = Ret("getStream", Registered(name), "missing", 0, 0)
          /\ UNCHANGED <<topics, subs, stack>>
     ELSE LET tid == registry[name]
              s == Len(subs) + 1
          IN /\ Len(subs) < MaxSubs
             /\ subs' = Append(subs, NewSub("stream", tid, 0, "", FALSE, react))
             /\ topics' = [topics EXCEPT ![tid].subject = AddObserver(@, s)]
             /\ stack' = Push(SubscribeFrame(topics[tid].subject, s), stack)
             /\ ret' = Ret("getStream", Registered(name), "none", s, 0)
  /\ UNCHANGED <<registry, connections, source, sourceCount, uuidCount, emitCount, unhandled>>
  /\ UNCHANGED engine

\* bus.getTopic(name).getRawStream().subscribe(callback): the subject's observable
\* itself, without getStream's map and filter
GetRawStream(name) ==
  /\ Idle
  /\ IF ~TopicsHas(name)
     THEN /\ ret' = Ret("getRawStream", Registered(name), "missing", 0, 0)
          /\ UNCHANGED <<topics, subs, stack>>
     ELSE LET tid == registry[name]
              s == Len(subs) + 1
          IN /\ Len(subs) < MaxSubs
             /\ subs' = Append(subs, NewSub("raw", tid, 0, "", FALSE, ""))
             /\ topics' = [topics EXCEPT ![tid].subject = AddObserver(@, s)]
             /\ stack' = Push(SubscribeFrame(topics[tid].subject, s), stack)
             /\ ret' = Ret("getRawStream", Registered(name), "none", s, 0)
  /\ UNCHANGED <<registry, connections, source, sourceCount, uuidCount, emitCount, unhandled>>
  /\ UNCHANGED engine

\* subscription.unsubscribe() by the consumer that holds it
Unsubscribe(s) ==
  /\ Idle
  /\ s \in 1 .. Len(subs)
  /\ subs[s].kind = "stream"
  /\ ~subs[s].closed
  /\ subs' = [subs EXCEPT ![s].closed = TRUE,
                          ![s].until = Len(topics[subs[s].topic].log),
                          ![s].released = @ + 1]
  /\ topics' = [topics EXCEPT ![subs[s].topic].subject.observers = Remove(@, s)]
  /\ ret' = Ret("unsubscribe", TRUE, "none", s, 0)
  /\ UNCHANGED <<registry, connections, source, sourceCount, uuidCount, emitCount, stack, unhandled>>
  /\ UNCHANGED engine

\* connectTopics that subscribes to the source's stream before it looks the
\* destination up: an unknown destination leaves the subscription behind
ConnectTopicsEager(sourceTopic, destinationTopic, mapper) ==
  /\ Idle
  /\ IF ~TopicsHas(sourceTopic)
     THEN /\ ret' = Ret("connectTopics", Registered(sourceTopic) /\ Registered(destinationTopic), "missing", 0, 0)
          /\ UNCHANGED <<topics, subs, connections, stack>>
     ELSE LET tid == registry[sourceTopic]
              s == Len(subs) + 1
          IN /\ Len(subs) < MaxSubs
             /\ subs' = Append(subs, NewSub("conn", tid, registry[destinationTopic],
                                            mapper, FALSE, ""))
             /\ topics' = [topics EXCEPT ![tid].subject = AddObserver(@, s)]
             /\ stack' = Push(SubscribeFrame(topics[tid].subject, s), stack)
             /\ connections' = IF TopicsHas(destinationTopic)
                               THEN Append(connections, s) ELSE connections
             /\ ret' = Ret("connectTopics", Registered(sourceTopic) /\ Registered(destinationTopic),
                           IF TopicsHas(destinationTopic) THEN "none" ELSE "missing", s, 0)
  /\ UNCHANGED <<registry, source, sourceCount, uuidCount, emitCount, unhandled>>
  /\ UNCHANGED engine

\* DefaultSamsaraBus.connectTopics(sourceTopic, destinationTopic, mapper)
ConnectTopics(sourceTopic, destinationTopic, mapper) ==
  /\ Idle
  /\ IF ~TopicsHas(sourceTopic) \/ ~TopicsHas(destinationTopic)
     THEN /\ ret' = Ret("connectTopics", Registered(sourceTopic) /\ Registered(destinationTopic), "missing", 0, 0)
          /\ UNCHANGED <<topics, subs, connections, stack>>
     ELSE LET tid == registry[sourceTopic]
              s == Len(subs) + 1
          IN /\ Len(subs) < MaxSubs
             /\ subs' = Append(subs, NewSub("conn", tid, registry[destinationTopic],
                                            mapper, FALSE, ""))
             /\ topics' = [topics EXCEPT ![tid].subject = AddObserver(@, s)]
             /\ stack' = Push(SubscribeFrame(topics[tid].subject, s), stack)
             /\ connections' = Append(connections, s)
             /\ ret' = Ret("connectTopics", Registered(sourceTopic) /\ Registered(destinationTopic), "none", s, 0)
  /\ UNCHANGED <<registry, source, sourceCount, uuidCount, emitCount, unhandled>>
  /\ UNCHANGED engine

\* DefaultSamsaraBus.injectStream(topicName, source, mapper, correlationIdProvider)
InjectStream(name, mapper, provider) ==
  /\ Idle
  /\ IF ~TopicsHas(name)
     THEN /\ ret' = Ret("injectStream", Registered(name), "missing", 0, 0)
          /\ UNCHANGED <<topics, subs, source, stack>>
     ELSE LET tid == registry[name]
              s == Len(subs) + 1
          IN /\ Len(subs) < MaxSubs
             /\ subs' = Append(subs, NewSub("inject", 0, tid, mapper, provider, ""))
             /\ source' = AddObserver(source, s)
             /\ stack' = Push(SubscribeFrame(source, s), stack)
             /\ topics' = [topics EXCEPT ![tid].externalSubscriptions = Append(@, s)]
             /\ ret' = Ret("injectStream", Registered(name), "none", s, 0)
  /\ UNCHANGED <<registry, connections, sourceCount, uuidCount, emitCount, unhandled>>
  /\ UNCHANGED engine

\* externalSubject.next(value), while some injection observes the source (a
\* value no injection observes reaches no part of the bus)
SourceNext(value) ==
  /\ Idle
  /\ source.observers # <<>>
  /\ sourceCount < MaxEmits
  /\ sourceCount' = sourceCount + 1
  /\ stack' = Push(NextFrame(source, MessageEnvelope(value, Undefined, sourceCount + 1)),
                   stack)
  /\ ret' = Ret("sourceNext", TRUE, "none", 0, 0)
  /\ UNCHANGED <<registry, topics, subs, connections, source, uuidCount,
                 emitCount, unhandled>>
  /\ UNCHANGED engine

\* externalSubject.error(err)
SourceError ==
  /\ Idle
  /\ ~source.isStopped
  /\ source' = SubjectError(source)
  /\ stack' = Push(ErrorFrame(source), stack)
  /\ ret' = Ret("sourceError", TRUE, "none", 0, 0)
  /\ UNCHANGED <<registry, topics, subs, connections, sourceCount, uuidCount, emitCount, unhandled>>
  /\ UNCHANGED engine

\* ---------------------------------------------------------------- close
\* the occurrences of x in seq
Count(seq, x) == Cardinality({i \in 1 .. Len(seq) : seq[i] = x})

RECURSIVE Concat(_)
Concat(seqs) == IF seqs = <<>> THEN <<>> ELSE Head(seqs) \o Concat(Tail(seqs))

\* sub.unsubscribe() for each handle of the sequence, in the subscribers
Unsubscribed(handles) ==
  [i \in 1 .. Len(subs) |->
     IF Count(handles, i) = 0 THEN subs[i]
     ELSE [subs[i] EXCEPT !.closed = TRUE,
                          !.released = @ + Count(handles, i),
                          !.until = IF subs[i].closed THEN @
                                    ELSE Len(topics[Observed(subs[i])].log)]]

\* Topic.close without the forEach(sub => sub.unsubscribe())
ExternalsNone(topic) == <<>>

\* Topic.close: the handles this._externalSubscriptions.forEach unsubscribes
Externals(topic) == topic.externalSubscriptions

\* Topic.close without this._externalSubscriptions.length = 0
CloseTopicKeepList(topic) == Stopped(topic, SubjectComplete(topic.subject))

\* Topic.close: the topic after the list is emptied and the subject completed
CloseTopic(topic) ==
  Stopped([topic EXCEPT !.externalSubscriptions = <<>>], SubjectComplete(topic.subject))

\* topic.close() on a Topic object the caller holds
TopicClose(tid) ==
  /\ Idle
  /\ tid \in 1 .. Len(topics)
  /\ subs' = Unsubscribed(Externals(topics[tid]))
  /\ source' = [source EXCEPT !.observers =
                  SelectSeq(@, LAMBDA o : Count(Externals(topics[tid]), o) = 0)]
  /\ topics' = [topics EXCEPT ![tid] = CloseTopic(@)]
  /\ stack' = Push(CompleteFrame(topics[tid].subject), stack)
  /\ ret' = Ret("topicClose", TRUE, "none", tid, 0)
  /\ UNCHANGED <<registry, connections, sourceCount, uuidCount, emitCount, unhandled>>
  /\ UNCHANGED engine

\* topic.emit(message) on a Topic object the caller holds
TopicEmit(tid, message) ==
  /\ Idle
  /\ tid \in 1 .. Len(topics)
  /\ emitCount < MaxEmits
  /\ LET envelope == MessageEnvelope(message, EmitId(Undefined, Uuid(uuidCount + 1)),
                                     emitCount + 1)
     IN /\ topics' = [topics EXCEPT ![tid] = EmitTopic(@, envelope, 0, 0, FALSE)]
        /\ stack' = Push(NextFrame(topics[tid].subject, envelope), stack)
        /\ ret' = Ret("topicEmit", TRUE, "none", envelope.correlationId, emitCount + 1)
  /\ uuidCount' = uuidCount + 1
  /\ emitCount' = emitCount + 1
  /\ UNCHANGED <<registry, subs, connections, source, sourceCount, unhandled>>
  /\ UNCHANGED engine

\* The Topic objects of this._topics, in the order of the Map
RegisteredTopics ==
  SelectSeq([t \in 1 .. Len(topics) |-> t],
            LAMBDA t : \E n \in TopicNames : registry[n] = t)

\* DefaultSamsaraBus.close without this._topics.clear()
BusCloseKeepTopics ==
  /\ Idle
  /\ LET regs == RegisteredTopics
         exts == Concat([i \in 1 .. Len(regs) |-> Externals(topics[regs[i]])])
         cut(t) == [topics[t] EXCEPT !.subject.observers =
                      SelectSeq(@, LAMBDA o : Count(connections, o) = 0)]
     IN /\ subs' = Unsubscribed(connections \o exts)
        /\ source' = [source EXCEPT !.observers =
                        SelectSeq(@, LAMBDA o : Count(exts, o) = 0)]
        /\ topics' = [t \in 1 .. Len(topics) |->
                        IF \E i \in 1 .. Len(regs) : regs[i] = t
                        THEN CloseTopic(cut(t)) ELSE cut(t)]
        /\ stack' = Push(Concat([i \in 1 .. Len(regs) |->
                                   CompleteFrame(cut(regs[i]).subject)]), stack)
  /\ connections' = <<>>
  /\ ret' = Ret("close", TRUE, "none", 0, 0)
  /\ UNCHANGED <<registry, sourceCount, uuidCount, emitCount, unhandled>>
  /\ UNCHANGED engine

\* DefaultSamsaraBus.close(): the connections are unsubscribed, then every
\* registered topic is closed in registration order, then the registry is
\* cleared
BusClose ==
  /\ Idle
  /\ LET regs == RegisteredTopics
         exts == Concat([i \in 1 .. Len(regs) |-> Externals(topics[regs[i]])])
         cut(t) == [topics[t] EXCEPT !.subject.observers =
                      SelectSeq(@, LAMBDA o : Count(connections, o) = 0)]
     IN /\ subs' = Unsubscribed(connections \o exts)
        /\ source' = [source EXCEPT !.observers =
                        SelectSeq(@, LAMBDA o : Count(exts, o) = 0)]
        /\ topics' = [t \in 1 .. Len(topics) |->
                        IF \E i \in 1 .. Len(regs) : regs[i] = t
                        THEN CloseTopic(cut(t)) ELSE cut(t)]
        /\ stack' = Push(Concat([i \in 1 .. Len(regs) |->
                                   CompleteFrame(cut(regs[i]).subject)]), stack)
  /\ connections' = <<>>
  /\ registry' = [n \in TopicNames |-> 0]
  /\ ret' = Ret("close", TRUE, "none", 0, 0)
  /\ UNCHANGED <<sourceCount, uuidCount, emitCount, unhandled>>
  /\ UNCHANGED engine

\* ------------------------------------------------------------ delivery
\* What the callback of subscriber s does with the value of an "N"
\* notification: the Topic.emit call it makes, if any.
\*   call    whether Topic.emit is called
\*   thrown  whether the callback throws instead (rxjs reports the error
\*           asynchronously; the caller of next never sees it)
\*   uuids   uuidv4() calls made before Topic.emit
\* A "stream" consumer that reacts calls bus.emit(react, 2): getTopic throws
\* for an unregistered name.  A connection calls
\* destinationTopicInstance.emit(mapper(message)).  An injection computes
\* correlationIdProvider?.() ?? uuidv4(), then calls this.emit(mapper(value), id).
NoCall == [call |-> FALSE, thrown |-> FALSE, uuids |-> 0, tid |-> 0,
           message |-> Undefined, correlationId |-> Undefined]

ConnectionNext(sub, v) ==
  IF Throws(sub.mapper, v) THEN [NoCall EXCEPT !.thrown = TRUE]
  ELSE [NoCall EXCEPT !.call = TRUE, !.tid = sub.dest, !.message = Apply(sub.mapper, v)]

\* the next handler of injectStream without the correlationIdProvider call
InjectNextNoProvider(sub, v) ==
  IF Throws(sub.mapper, v) THEN [NoCall EXCEPT !.thrown = TRUE, !.uuids = 1]
  ELSE [NoCall EXCEPT !.call = TRUE, !.tid = sub.dest, !.uuids = 1,
                      !.message = Apply(sub.mapper, v),
                      !.correlationId = Uuid(uuidCount + 1)]

InjectNext(sub, v) ==
  LET id == Coalesce(IF sub.provider THEN CustomId ELSE Undefined, Uuid(uuidCount + 1))
      n == IF sub.provider THEN 0 ELSE 1
  IN IF Throws(sub.mapper, v) THEN [NoCall EXCEPT !.thrown = TRUE, !.uuids = n]
     ELSE [NoCall EXCEPT !.call = TRUE, !.tid = sub.dest, !.uuids = n,
                         !.message = Apply(sub.mapper, v), !.correlationId = id]

ConsumerNext(sub, v) ==
  IF sub.react = "" \/ v # 1 THEN NoCall
  ELSE IF ~TopicsHas(sub.react) THEN [NoCall EXCEPT !.thrown = TRUE]
  ELSE [NoCall EXCEPT !.call = TRUE, !.tid = registry[sub.react], !.message = 2]

Callback(sub, v) ==
  CASE sub.kind = "conn" -> ConnectionNext(sub, v)
    [] sub.kind = "inject" -> InjectNext(sub, v)
    [] OTHER -> ConsumerNext(sub, v)

\* Whether the subscriber is stopped once its next callback has run.  rxjs 7
\* wraps the callback in a try/catch and reports what it throws later, from
\* a timer: the subscriber stays subscribed.
StoppedAfterNext(sub, thrown) == sub.closed

\* Whether the notification's value reaches the callback: the observers of
\* a topic sit behind getStream's map and filter, an injection's observer
\* is subscribed to the source itself and a getRawStream observer to the
\* subject itself.
Reaches(sub, envelope) == sub.kind \in {"inject", "raw"} \/ StreamPasses(envelope)

\* The value the callback is called with
Received(sub, envelope) ==
  IF sub.kind \in {"inject", "raw"} THEN envelope
  ELSE [envelope EXCEPT !.payload = StreamMap(envelope)]

\* One notification handed to one observer: the head of the innermost frame.
Deliver ==
  /\ ~Idle
  /\ LET item == Head(Head(stack))
         rest == Push(Tail(Head(stack)), Tail(stack))
         s == item.sub
         sub == subs[s]
     IN IF sub.closed
        THEN \* Subscriber.next/error/complete of a stopped subscriber: nothing
             /\ stack' = rest
             /\ UNCHANGED <<topics, subs, uuidCount, emitCount, unhandled>>
        ELSE IF item.sig # "N"
        THEN \* the subscriber stops; an injection forwards the source's
             \* error to the topic's subject, a connection logs it
             LET fwd == sub.kind = "inject" /\ item.sig = "E"
             IN /\ subs' = [subs EXCEPT ![s].closed = TRUE, ![s].signal = item.sig,
                                        ![s].until = Len(topics[Observed(sub)].log)]
                /\ topics' = IF fwd
                             THEN [topics EXCEPT ![sub.dest] = Stopped(@, SubjectError(@.subject))]
                             ELSE topics
                /\ stack' = IF fwd THEN Push(ErrorFrame(topics[sub.dest].subject), rest)
                            ELSE rest
                /\ UNCHANGED <<uuidCount, emitCount, unhandled>>
        ELSE IF ~Reaches(sub, item.env)
        THEN /\ stack' = rest
             /\ UNCHANGED <<topics, subs, uuidCount, emitCount, unhandled>>
        ELSE LET value == Received(sub, item.env)
                 cb == Callback(sub, value.payload)
                 id == EmitId(cb.correlationId, Uuid(uuidCount + 1))
                 envelope == MessageEnvelope(cb.message, id, emitCount + 1)
             IN /\ subs' = [subs EXCEPT ![s].got = Append(@, value),
                                        ![s].closed = StoppedAfterNext(sub, cb.thrown)]
                /\ unhandled' = (unhandled \/ cb.thrown)
                /\ IF cb.call
                   THEN /\ emitCount < MaxEmits
                        /\ topics' = [topics EXCEPT ![cb.tid] =
                                        EmitTopic(@, envelope, s, item.env.seq, InFlight(cb.tid))]
                        /\ stack' = Push(NextFrame(topics[cb.tid].subject, envelope), rest)
                        /\ uuidCount' = uuidCount + cb.uuids
                                          + (IF Nullish(cb.correlationId) THEN 1 ELSE 0)
                        /\ emitCount' = emitCount + 1
                   ELSE /\ stack' = rest
                        /\ uuidCount' = uuidCount + cb.uuids
                        /\ UNCHANGED <<topics, emitCount>>
  /\ UNCHANGED <<registry, connections, source, sourceCount, ret>>
  /\ UNCHANGED engine

\* ---------------------------------------------------- GlobalSamsaraBus
\* a getInstance that constructs a new instance on every call
InstanceAlwaysNew(current, fresh) == fresh

\* if (!GlobalSamsaraBus._instance) GlobalSamsaraBus._instance = new
\* GlobalSamsaraBus(); return GlobalSamsaraBus._instance
InstanceFor(current, fresh) == IF current = 0 THEN fresh ELSE current

\* GlobalSamsaraBus.getInstance(): the reference returned is recorded with
\* the bus call that preceded it.  The bus state of the model is the
\* _implementation of instance 1.
GetInstance ==
  /\ Len(global.references) < MaxReferences
  /\ LET instance == InstanceFor(global.instance, global.made + 1)
     IN global' = [instance |-> instance,
                   made |-> IF instance = global.instance THEN global.made
                            ELSE global.made + 1,
                   references |-> Append(global.references,
                                         [instance |-> instance, after |-> ret.op])]
  /\ UNCHANGED <<registry, topics, subs, connections, source, sourceCount, uuidCount,
                 emitCount, stack, unhandled, ret, topology, nodeStreams, hook, emitted,
                 fluent>>

\* a call made through the reference r that getInstance returned reaches
\* the bus of the model
Through(r) == r \in 1 .. Len(global.references) /\ global.references[r].instance = 1

\* ------------------------------------------------------ topology engine
\* The values the topics carry to the pipeline, and the processor functions
\* of the definitions below: "pack" returns its arguments (one value as it
\* is, several as one number), "failOn5" does the same and throws when its
\* first argument is 5; "above5" and "inRoom" do the same or return SKIP.
InputValues == {5, 6}
Fns == {"pack", "failOn5"}

RECURSIVE Pack(_)
Pack(args) == IF Len(args) = 1 THEN args[1] ELSE 10 * Pack(SubSeq(args, 1, Len(args) - 1)) + args[Len(args)]

FnThrows(fn, args) == fn = "failOn5" /\ args[1] = 5

\* a function that never returns SKIP
FnSkipsNever(fn, args, params) == FALSE

\* whether fn returns SKIP: "above5" is value > 5 ? value : SKIP, "inRoom"
\* lets through the values equal to the parameter room
FnSkips(fn, args, params) ==
  \/ fn = "above5" /\ args[1] <= 5
  \/ fn = "inRoom" /\ args[1] # params["room"].num

FnResult(fn, args) == Pack(args)

\* TopologyCombiner's built-in values; "none" is a processor without combiner
Combiners == {"combineLatest", "zip", "merge", "withLatestFrom"}

\* ParameterDefinition, and paramTypes as its entries in insertion order
Param(name, validator) == [name |-> name, validator |-> validator]

\* ProcessorDefinition
Proc(inputs, combiner, fn) == [inputs |-> inputs, combiner |-> combiner, fn |-> fn]

\* topic("t", "a").proc(p: [t]).output("p"): one processor over one topic
Chain(fn) ==
  [topics |-> [id \in {"t"} |-> "a"],
   processors |-> [id \in {"p"} |-> Proc(<<"t">>, "none", fn)],
   outputNode |-> "p", paramTypes |-> <<>>]

\* x over topic t, y and z over x, out over y and z: x is reachable from
\* the output through two paths
Diamond(combiner, fn) ==
  [topics |-> [id \in {"t"} |-> "a"],
   processors |-> [id \in {"x", "y", "z", "out"} |->
                     CASE id = "x" -> Proc(<<"t">>, "none", fn)
                       [] id = "y" -> Proc(<<"x">>, "none", "pack")
                       [] id = "z" -> Proc(<<"x">>, "none", "pack")
                       [] OTHER -> Proc(<<"y", "z">>, combiner, "pack")],
   outputNode |-> "out", paramTypes |-> <<>>]

\* p over topic t throws on 5, its sibling q over topic u never throws, and
\* out combines the two, p first or q first
Siblings(combiner, failedFirst) ==
  [topics |-> [id \in {"t", "u"} |-> IF id = "t" THEN "a" ELSE "b"],
   processors |-> [id \in {"p", "q", "out"} |->
                     CASE id = "p" -> Proc(<<"t">>, "none", "failOn5")
                       [] id = "q" -> Proc(<<"u">>, "none", "pack")
                       [] OTHER -> Proc(IF failedFirst THEN <<"p", "q">> ELSE <<"q", "p">>,
                                        combiner, "pack")],
   outputNode |-> "out", paramTypes |-> <<>>]

\* topic("t", "a").proc(p: [t]).proc(q: [p]).output("q"): two processors
\* in a row
Staged(fn) ==
  [topics |-> [id \in {"t"} |-> "a"],
   processors |-> [id \in {"p", "q"} |->
                     IF id = "p" THEN Proc(<<"t">>, "none", fn)
                     ELSE Proc(<<"p">>, "none", "pack")],
   outputNode |-> "q", paramTypes |-> <<>>]

\* topic("t", "a").topic("u", "b").proc(out: [t, u], combiner).output("out")
Pair(combiner) ==
  [topics |-> [id \in {"t", "u"} |-> IF id = "t" THEN "a" ELSE "b"],
   processors |-> [id \in {"out"} |-> Proc(<<"t", "u">>, combiner, "pack")],
   outputNode |-> "out", paramTypes |-> <<>>]

\* param("room", t => t.number()) and one processor over topic a that lets
\* through the values equal to room; with limit, a second parameter
RoomChain == [Chain("inRoom") EXCEPT !.paramTypes = <<Param("room", "number")>>]
LimitChain ==
  [Chain("inRoom") EXCEPT !.paramTypes = <<Param("room", "number"), Param("limit", "number")>>]

\* p over topic t is the output; topic v, bound to the bus topic name, and
\* processor r over v are not reachable from it
Spare(name) ==
  [topics |-> [id \in {"t", "v"} |-> IF id = "t" THEN "a" ELSE name],
   processors |-> [id \in {"p", "r"} |->
                     IF id = "p" THEN Proc(<<"t">>, "none", "pack")
                     ELSE Proc(<<"v">>, "none", "failOn5")],
   outputNode |-> "p", paramTypes |-> <<>>]

\* one processor over one topic that declares a combiner; "custom" is a
\* combiner function
Single(combiner) == [Chain("pack") EXCEPT !.processors["p"].combiner = combiner]

\* output("w") where no topic or processor is named w
Dangling == [Chain("pack") EXCEPT !.outputNode = "w"]

\* createObservable's two kinds of node
IsTopic(def, nodeId) == nodeId \in DOMAIN def.topics
IsProcessor(def, nodeId) == nodeId \in DOMAIN def.processors

\* the topics registered on the bus of the component's context
BusTopics == {"a", "b"}

\* getTopicStream(topicName): bus.getStream, which throws for a name that
\* is not registered
GetTopicStream(ns, topicName) ==
  IF topicName \in BusTopics THEN [ns EXCEPT !.looked = Append(@, topicName)]
  ELSE [ns EXCEPT !.looked = Append(@, topicName), !.failed = TRUE, !.error = "topicNotFound"]

\* a resolution that obtains the stream of every topic of the definition
CreateObservableEager(ns, def, nodeId) ==
  IF \E id \in DOMAIN def.topics : def.topics[id] \notin BusTopics
  THEN [ns EXCEPT !.failed = TRUE, !.error = "topicNotFound"]
  ELSE [ns EXCEPT !.streams = DOMAIN def.topics \cup DOMAIN def.processors,
                  !.built = <<nodeId>>]

\* createObservable(nodeId) with the memo ns: a cached stream is returned
\* as it is; a topic's stream is obtained; a processor's inputs are created
\* in declared order and then its pipeline is built and set in the memo;
\* any other id throws.  A processor that is reached again while its own
\* inputs are being created is not in the memo yet, so its inputs are
\* created again, and again: the recursion ends when the call stack is
\* exhausted, with a RangeError.  built lists the streams constructed, in
\* order.
RECURSIVE CreateObservable(_, _, _)
RECURSIVE CreateInputs(_, _, _)
CreateObservable(ns, def, nodeId) ==
  IF ns.failed \/ nodeId \in ns.streams THEN ns
  ELSE IF nodeId \in ns.open THEN [ns EXCEPT !.failed = TRUE, !.error = "stackOverflow"]
  ELSE IF IsTopic(def, nodeId) \/ IsProcessor(def, nodeId)
  THEN LET r == IF IsTopic(def, nodeId) THEN GetTopicStream(ns, def.topics[nodeId])
                ELSE CreateInputs([ns EXCEPT !.open = @ \cup {nodeId}], def,
                                  def.processors[nodeId].inputs)
       IN IF r.failed THEN r
          ELSE [r EXCEPT !.streams = @ \cup {nodeId}, !.built = Append(@, nodeId),
                         !.open = @ \ {nodeId}]
  ELSE [ns EXCEPT !.failed = TRUE, !.error = "unknownNode"]

CreateInputs(ns, def, inputs) ==
  IF inputs = <<>> THEN ns
  ELSE CreateInputs(CreateObservable(ns, def, Head(inputs)), def, Tail(inputs))

\* A subscription of the pipeline is named by its path from the output
\* stream's subscription <<>>: Append(p, i) is the subscription p made to
\* its i-th input.
Parent(p) == SubSeq(p, 1, Len(p) - 1)
Slot(p) == p[Len(p)]

RECURSIVE NodeAt(_, _)
NodeAt(def, p) ==
  IF p = <<>> THEN def.outputNode
  ELSE def.processors[NodeAt(def, Parent(p))].inputs[Slot(p)]

Arity(def, nodeId) == IF IsTopic(def, nodeId) THEN 0 ELSE Len(def.processors[nodeId].inputs)

\* combineInputs with merge for the default
CombinerDefaultMerge(proc) ==
  IF Len(proc.inputs) = 1 THEN "single"
  ELSE IF proc.combiner \in {"zip", "combineLatest", "withLatestFrom"} THEN proc.combiner
  ELSE "merge"

\* combineInputs: one input is passed through whatever the combiner, and a
\* missing combiner is combineLatest
Combiner(proc) ==
  IF Len(proc.inputs) = 1 THEN "single"
  ELSE IF proc.combiner \in {"zip", "merge", "withLatestFrom"} THEN proc.combiner
  ELSE "combineLatest"

\* the order in which a combiner subscribes to its inputs: withLatestFrom
\* subscribes to the other inputs before its source, the rest in order
InputOrder(proc) ==
  IF Combiner(proc) = "withLatestFrom"
  THEN [k \in 1 .. Len(proc.inputs) |-> IF k = Len(proc.inputs) THEN 1 ELSE k + 1]
  ELSE [k \in 1 .. Len(proc.inputs) |-> k]

\* subscribing to the stream of nodeId as subscription p: the subscriptions
\* made to topic streams, in the order they are made.  The memo holds cold
\* streams, so every subscription to a processor's stream subscribes to the
\* processor's inputs again.
RECURSIVE TopicSubscriptions(_, _, _)
TopicSubscriptions(def, nodeId, p) ==
  IF IsTopic(def, nodeId) THEN <<p>>
  ELSE LET proc == def.processors[nodeId]
           order == InputOrder(proc)
       IN Concat([k \in 1 .. Len(proc.inputs) |->
                    TopicSubscriptions(def, proc.inputs[order[k]], Append(p, order[k]))])

RECURSIVE Subscriptions(_, _, _)
Subscriptions(def, nodeId, p) ==
  IF IsTopic(def, nodeId) THEN {p}
  ELSE {p} \cup UNION {Subscriptions(def, def.processors[nodeId].inputs[i], Append(p, i)) :
                         i \in 1 .. Len(def.processors[nodeId].inputs)}

\* a new subscription with n inputs: what the combiner keeps per input
NewInstance(n) ==
  [live |-> TRUE,
   has |-> [i \in 1 .. n |-> FALSE],
   latest |-> [i \in 1 .. n |-> Undefined],
   buffers |-> [i \in 1 .. n |-> <<>>],
   completed |-> [i \in 1 .. n |-> FALSE]]

IsPrefix(p, q) == Len(p) <= Len(q) /\ SubSeq(q, 1, Len(p)) = p

\* unsubscribing subscription p: p and every subscription under it
Teardown(insts, p) ==
  [q \in DOMAIN insts |-> IF IsPrefix(p, q) THEN [insts[q] EXCEPT !.live = FALSE] ELSE insts[q]]

\* A payload that is an array: the value 12 stands for the array [1, 2].
ArrayPayloads == {Pack(<<1, 2>>)}
IsArray(v) == v \in ArrayPayloads
ArrayItems(v) == <<v \div 10, v % 10>>

\* Array.isArray(inputValues) ? inputValues : [inputValues], for a value
\* that is not a combiner's tuple
ArgsOf(v) == IF IsArray(v) THEN ArrayItems(v) ELSE <<v>>

\* a combiner that treats every built-in name as combineLatest
CombineAllLatest(inst, combiner, slot, v) ==
  LET stored == [inst EXCEPT !.has[slot] = TRUE, !.latest[slot] = v]
  IN IF combiner = "single"
     THEN [inst |-> inst, out |-> <<ArgsOf(v)>>, done |-> FALSE, shared |-> IsArray(v)]
     ELSE [inst |-> stored,
           out |-> IF \A i \in 1 .. Len(inst.has) : stored.has[i] THEN <<stored.latest>> ELSE <<>>,
           done |-> FALSE, shared |-> FALSE]

\* rxjs combineLatest, zip, merge and withLatestFrom on a value v of input
\* slot: the combiner's new state, the argument lists it emits (none or
\* one) and whether it completes after emitting.  One input, and merge,
\* pass the value itself, which map() takes for the argument list when it
\* is an array (shared: the argument list is the value itself, not a new
\* array); the other combiners emit a new array each time.
Combine(inst, combiner, slot, v) ==
  LET n == Len(inst.has)
      stored == [inst EXCEPT !.has[slot] = TRUE, !.latest[slot] = v]
      queued == [inst EXCEPT !.buffers[slot] = Append(@, v)]
      shifted == [queued EXCEPT !.buffers = [i \in 1 .. n |-> Tail(queued.buffers[i])]]
  IN CASE combiner \in {"single", "merge"} ->
            [inst |-> inst, out |-> <<ArgsOf(v)>>, done |-> FALSE, shared |-> IsArray(v)]
       [] combiner = "combineLatest" ->
            [inst |-> stored,
             out |-> IF \A i \in 1 .. n : stored.has[i] THEN <<stored.latest>> ELSE <<>>,
             done |-> FALSE, shared |-> FALSE]
       [] combiner = "zip" ->
            IF \A i \in 1 .. n : queued.buffers[i] # <<>>
            THEN [inst |-> shifted,
                  out |-> << [i \in 1 .. n |-> Head(queued.buffers[i])] >>,
                  done |-> \E i \in 1 .. n : shifted.buffers[i] = <<>> /\ shifted.completed[i],
                  shared |-> FALSE]
            ELSE [inst |-> queued, out |-> <<>>, done |-> FALSE, shared |-> FALSE]
       [] OTHER ->
            IF slot = 1
            THEN [inst |-> inst,
                  out |-> IF \A i \in 2 .. n : inst.has[i]
                          THEN << [i \in 1 .. n |-> IF i = 1 THEN v ELSE inst.latest[i]] >>
                          ELSE <<>>,
                  done |-> FALSE, shared |-> FALSE]
            ELSE [inst |-> stored, out |-> <<>>, done |-> FALSE, shared |-> FALSE]

\* whether the combiner completes when input slot completes, inst being the
\* state with that input marked completed
Completes(inst, combiner, slot) ==
  CASE combiner = "single" -> TRUE
    [] combiner \in {"combineLatest", "merge"} -> \A i \in 1 .. Len(inst.completed) : inst.completed[i]
    [] combiner = "zip" -> inst.buffers[slot] = <<>>
    [] OTHER -> slot = 1

\* a next handler that sets the status without the data
HookNextStatusOnly(e, v) ==
  [e EXCEPT !.status = "success", !.error = "none", !.outputs = Append(@, v)]

\* the subscriber of useTopology's effect: next, error, and no complete
HookNext(e, v) ==
  [e EXCEPT !.data = v, !.status = "success", !.error = "none", !.outputs = Append(@, v)]

HookError(e, err) == [e EXCEPT !.error = err, !.status = "error"]

HookComplete(e) == [e EXCEPT !.completed = TRUE]

\* A value or a completion travelling down the pipeline, synchronously.
\* InputNext: subscription p of a processor is given v by its input slot;
\* the combiner runs, then map(fn), filter(SKIP) and catchError (Process);
\* map's args.push(validatedParams) appends to the payload of the emission
\* being handled when the argument list is a topic's array payload itself.
\* Downstream: subscription p emits v to whoever subscribed to it.
\* CompleteNode: subscription p completes: it unsubscribes from its inputs
\* and tells its subscriber.  InputComplete: input slot of p completed.
RECURSIVE InputNext(_, _, _, _, _)
RECURSIVE Process(_, _, _, _)
RECURSIVE Downstream(_, _, _, _)
RECURSIVE CompleteNode(_, _, _)
RECURSIVE InputComplete(_, _, _, _)

\* a pipeline without catchError: the error reaches the output subscriber
Uncaught(e, def, p) ==
  HookError([e EXCEPT !.insts = Teardown(@, <<>>)], "processor")

\* catchError: console.warn names the node, and EMPTY completes the stream
Caught(e, def, p) ==
  CompleteNode([e EXCEPT !.warned = @ \cup {NodeAt(def, p)}], def, p)

Downstream(e, def, p, v) ==
  IF p = <<>> THEN HookNext(e, v)
  ELSE InputNext(e, def, Parent(p), Slot(p), v)

Process(e, def, p, args) ==
  LET nodeId == NodeAt(def, p)
      fn == def.processors[nodeId].fn
      called == [e EXCEPT !.calls = Append(@, [node |-> nodeId, at |-> p, args |-> args,
                                                params |-> e.params, cause |-> e.cause])]
  IN IF FnThrows(fn, args) THEN Caught(called, def, p)
     ELSE IF FnSkips(fn, args, e.params) THEN called
     ELSE Downstream(called, def, p, FnResult(fn, args))

InputNext(e, def, p, slot, v) ==
  IF ~e.insts[p].live THEN e
  ELSE LET c == Combine(e.insts[p], Combiner(def.processors[NodeAt(def, p)]), slot, v)
           input == def.processors[NodeAt(def, p)].inputs[slot]
           combined == [e EXCEPT !.insts[p] = c.inst,
                                 !.pushed = IF c.out # <<>> /\ c.shared /\ IsTopic(def, input)
                                            THEN Append(@, e.cause) ELSE @]
           processed == IF c.out = <<>> THEN combined
                        ELSE Process(combined, def, p, c.out[1])
       IN IF c.done /\ processed.insts[p].live
          THEN CompleteNode(processed, def, p)
          ELSE processed

CompleteNode(e, def, p) ==
  LET ended == [e EXCEPT !.insts = Teardown(@, p)]
  IN IF p = <<>> THEN HookComplete(ended)
     ELSE InputComplete(ended, def, Parent(p), Slot(p))

InputComplete(e, def, p, slot) ==
  IF ~e.insts[p].live THEN e
  ELSE LET marked == [e EXCEPT !.insts[p].completed[slot] = TRUE]
       IN IF Completes(marked.insts[p], Combiner(def.processors[NodeAt(def, p)]), slot)
          THEN CompleteNode(marked, def, p)
          ELSE marked

\* Subject.next of a topic: the value is given to each subscription of the
\* topic's stream in subscription order, unless it was unsubscribed by then
RECURSIVE Feed(_, _, _, _)
Feed(e, def, leaves, v) ==
  IF leaves = <<>> THEN e
  ELSE Feed(IF e.insts[Head(leaves)].live THEN Downstream(e, def, Head(leaves), v) ELSE e,
            def, Tail(leaves), v)

\* the subscriptions to the stream of topic name, in subscription order
Leaves(def, name) ==
  SelectSeq(TopicSubscriptions(def, def.outputNode, <<>>),
            LAMBDA l : def.topics[NodeAt(def, l)] = name)

\* the values topic name gave the pipeline, in order
ValuesOf(name) ==
  LET on == SelectSeq(emitted, LAMBDA m : m.topic = name)
  IN [i \in 1 .. Len(on) |-> on[i].value]

\* typeof value, and createTypeValidator's five checks
TypeOf(v) ==
  CASE v.kind \in {"number", "NaN"} -> "number"
    [] v.kind \in {"object", "null", "array"} -> "object"
    [] OTHER -> v.kind

\* validators that test typeof alone
ValidatesTypeOf(validator, v) ==
  IF validator = "array" THEN v.kind = "array" ELSE TypeOf(v) = validator

Validates(validator, v) ==
  CASE validator = "string" -> TypeOf(v) = "string"
    [] validator = "number" -> TypeOf(v) = "number" /\ v.kind # "NaN"
    [] validator = "boolean" -> TypeOf(v) = "boolean"
    [] validator = "object" -> TypeOf(v) = "object" /\ v.kind # "null" /\ v.kind # "array"
    [] OTHER -> v.kind = "array"

\* a validation that accepts every binding
ValidationNone(paramTypes, params) == "none"

\* validatedParams: the error thrown for the first declared parameter, in
\* the order of Object.entries, that is undefined or that its validator
\* rejects
RECURSIVE Validation(_, _)
Validation(paramTypes, params) ==
  IF paramTypes = <<>> THEN "none"
  ELSE IF params[Head(paramTypes).name] = NoValue THEN "missingParameter"
  ELSE IF ~Validates(Head(paramTypes).validator, params[Head(paramTypes).name])
  THEN "invalidParameter"
  ELSE Validation(Tail(paramTypes), params)

\* validatedParams: the declared parameters with their bound values
Validated(paramTypes, params) ==
  [name \in ParamNames |->
     IF \E i \in 1 .. Len(paramTypes) : paramTypes[i].name = name THEN params[name]
     ELSE NoValue]

\* Object.keys of a binding
Keys(params) == {name \in ParamNames : params[name] # NoValue}

\* a comparison that finds every two bindings equal
AreParamsEqualAlways(a, b) == TRUE

\* areParamsEqual: as many keys, and each key of a strictly equal in b
AreParamsEqual(a, b) ==
  /\ Cardinality(Keys(a)) = Cardinality(Keys(b))
  /\ \A key \in Keys(a) : a[key] = b[key]

\* useTopology(def, params), one render.  stableParams is the previous
\* params object when areParamsEqual finds the new one equal, and then
\* nothing is recomputed.  Otherwise validatedParams is recomputed, and
\* throws out of the render for a missing or invalid parameter: the
\* component is unmounted and its effect cleaned up.  Otherwise a new
\* resolution pass runs (status 'loading', error undefined,
\* createObservable(outputNode) with a new memo; an error thrown by it
\* gives status 'error' with that error and the EMPTY stream), and the effect unsubscribes
\* from the previous stream and subscribes to the new one.
Render(def, params) ==
  /\ hook.thrown = "none"
  /\ hook.mounted \/ hook.status = "idle"
  /\ hook.pass < MaxPasses
  /\ topology' = def
  /\ LET same == hook.mounted /\ topology = def /\ AreParamsEqual(hook.rendered, params)
         problem == Validation(def.paramTypes, params)
         ns == CreateObservable(NoStreams, def, def.outputNode)
         pass == [hook EXCEPT !.mounted = TRUE, !.rendered = params,
                              !.params = Validated(def.paramTypes, params),
                              !.pass = @ + 1, !.since = Len(emitted),
                              !.base = Len(hook.outputs), !.error = "none"]
     IN IF same THEN nodeStreams' = nodeStreams /\ hook' = [hook EXCEPT !.rendered = params]
        ELSE IF problem # "none"
        THEN /\ nodeStreams' = nodeStreams
             /\ hook' = [hook EXCEPT !.mounted = FALSE, !.rendered = params,
                                     !.thrown = problem, !.insts = Teardown(@, <<>>)]
        ELSE /\ nodeStreams' = ns
             /\ hook' = IF ns.failed
                        THEN [pass EXCEPT !.status = "error", !.error = ns.error,
                                          !.completed = TRUE, !.insts = <<>>]
                        ELSE [pass EXCEPT !.status = "loading", !.completed = FALSE,
                                          !.insts = [p \in Subscriptions(def, def.outputNode, <<>>) |->
                                                       NewInstance(Arity(def, NodeAt(def, p)))]]
  /\ UNCHANGED <<emitted, fluent, global, registry, topics, subs, connections, source,
                 sourceCount, uuidCount, emitCount, stack, unhandled, ret>>

\* useTopology(definition), first render, params defaulting to {}
UseTopology(def) ==
  /\ ~hook.mounted /\ hook.status = "idle"
  /\ Render(def, EmptyBinding)

\* Subject.next(v) of the stream of topic name, the pipeline subscribed
Given(name, v) ==
  /\ hook.mounted
  /\ emitted' = Append(emitted, [topic |-> name, value |-> v])
  /\ hook' = Feed([hook EXCEPT !.cause = Len(emitted) + 1], topology,
                  IF nodeStreams.failed THEN <<>> ELSE Leaves(topology, name), v)
  /\ UNCHANGED <<topology, nodeStreams, fluent, global, registry, topics, subs, connections,
                 source, sourceCount, uuidCount, emitCount, stack, unhandled, ret>>

\* the stream of topic name gives v to the pipeline, MaxInputs values in all
TopicNext(name, v) == Len(emitted) < MaxInputs /\ Given(name, v)

\* the same, MaxInputs values for each topic
TopicGives(name, v) == Len(ValuesOf(name)) < MaxInputs /\ Given(name, v)

\* the effect's cleanup: subscription.unsubscribe()
Unmount ==
  /\ hook.mounted
  /\ hook' = [hook EXCEPT !.mounted = FALSE, !.insts = Teardown(@, <<>>)]
  /\ UNCHANGED <<topology, nodeStreams, emitted, fluent, global, registry, topics, subs,
                 connections, source, sourceCount, uuidCount, emitCount, stack, unhandled,
                 ret>>

\* ------------------------------------------------------ fluent builder
\* A JavaScript object used as a record is its entries in insertion order.
\* { ...object, [key]: value }: a copy in which key has value, at the place
\* it had or at the end.
Entry(key, value) == [key |-> key, value |-> value]

HasKey(object, key) == \E i \in 1 .. Len(object) : object[i].key = key

Spread(object, key, value) ==
  IF HasKey(object, key)
  THEN [i \in 1 .. Len(object) |-> IF object[i].key = key THEN Entry(key, value) ELSE object[i]]
  ELSE Append(object, Entry(key, value))

\* the object as a function of its keys, and its values in insertion order
AsFunction(object) ==
  [key \in {object[i].key : i \in 1 .. Len(object)} |->
     object[CHOOSE i \in 1 .. Len(object) : object[i].key = key].value]

ValuesIn(object) == [i \in 1 .. Len(object) |-> object[i].value]

\* new TopologyBuilderImpl(...): the fields are references to objects, and
\* outputNode is <<>> when undefined and <<id>> when a string
Builder(params, topicsRef, processors, outputNode) ==
  [params |-> params, topics |-> topicsRef, processors |-> processors,
   outputNode |-> outputNode]

\* !this.outputNode: undefined and the empty string
Falsy(outputNode) == outputNode = <<>> \/ outputNode = <<"">>

CanConstruct == Len(builders) < MaxBuilders

\* topology(name): new TopologyBuilderImpl(name), each default {} a new object
NewBuilder ==
  /\ CanConstruct
  /\ objects' = objects \o <<<<>>, <<>>, <<>>>>
  /\ builders' = Append(builders, Builder(Len(objects) + 1, Len(objects) + 2,
                                           Len(objects) + 3, <<>>))
  /\ UNCHANGED <<built, topology, nodeStreams, hook, emitted, registry, topics, subs,
                 connections, source, sourceCount, uuidCount, emitCount, stack, unhandled,
                 ret, global>>

\* the steps of the builder leave the hook and the bus alone
BuilderFrame ==
  UNCHANGED <<topology, nodeStreams, hook, emitted, registry, topics, subs, connections,
              source, sourceCount, uuidCount, emitCount, stack, unhandled, ret, global>>

\* builders[b].param(name, validator)
BuilderParam(b, name, validator) ==
  /\ CanConstruct
  /\ objects' = Append(objects, Spread(objects[builders[b].params], name, Param(name, validator)))
  /\ builders' = Append(builders, [builders[b] EXCEPT !.params = Len(objects) + 1])
  /\ UNCHANGED built
  /\ BuilderFrame

\* builders[b].topic(name, topicName)
BuilderTopic(b, name, topicName) ==
  /\ CanConstruct
  /\ objects' = Append(objects, Spread(objects[builders[b].topics], name, topicName))
  /\ builders' = Append(builders, [builders[b] EXCEPT !.topics = Len(objects) + 1])
  /\ UNCHANGED built
  /\ BuilderFrame

\* a proc that adds the processor to this.processors and returns this
BuilderProcInPlace(b, id, processor) ==
  /\ CanConstruct
  /\ objects' = [objects EXCEPT ![builders[b].processors] = Spread(@, id, processor)]
  /\ builders' = Append(builders, builders[b])
  /\ UNCHANGED built
  /\ BuilderFrame

\* builders[b].proc(processor), id being processor.id
BuilderProc(b, id, processor) ==
  /\ CanConstruct
  /\ objects' = Append(objects, Spread(objects[builders[b].processors], id, processor))
  /\ builders' = Append(builders, [builders[b] EXCEPT !.processors = Len(objects) + 1])
  /\ UNCHANGED built
  /\ BuilderFrame

\* builders[b].output(nodeId)
BuilderOutput(b, nodeId) ==
  /\ CanConstruct
  /\ builders' = Append(builders, [builders[b] EXCEPT !.outputNode = <<nodeId>>])
  /\ UNCHANGED <<objects, built>>
  /\ BuilderFrame

\* builders[b].build(): the error thrown, or the TopologyInstance returned,
\* whose fields are the builder's own objects
Build(b) ==
  /\ Len(built) < MaxBuilt
  /\ built' = Append(built,
                     [of |-> b,
                      error |-> IF Falsy(builders[b].outputNode) THEN "missingOutput" ELSE "none",
                      instance |-> builders[b]])
  /\ UNCHANGED <<builders, objects>>
  /\ BuilderFrame

\* the TopologyInstance a build() returned, as useTopology reads it
Instance(i) ==
  [topics |-> AsFunction(objects[built[i].instance.topics]),
   processors |-> AsFunction(objects[built[i].instance.processors]),
   outputNode |-> built[i].instance.outputNode[1],
   paramTypes |-> ValuesIn(objects[built[i].instance.params])]

\* ------------------------------------------------------ specifications
\* One topic, every delivery mode, every payload; consumers that subscribe,
\* unsubscribe and emit from inside their callback.
NextTopic ==
  \/ \E type \in TopicType, size \in BufferSizes :
       ~Registered("a") /\ RegisterTopic("a", type, size)
  \/ \E message \in Payloads : Emit("a", message, Undefined)
  \/ \E react \in {"", "a"} : GetStream("a", react)
  \/ \E s \in 1 .. MaxSubs : Unsubscribe(s)
  \/ Deliver

SpecTopic == Init /\ [][NextTopic]_vars

\* The same with payloads that getStream lets through.
NextOrder ==
  \/ \E type \in TopicType, size \in BufferSizes :
       ~Registered("a") /\ RegisterTopic("a", type, size)
  \/ \E message \in Values : Emit("a", message, Undefined)
  \/ \E react \in {"", "a"} : GetStream("a", react)
  \/ \E s \in 1 .. MaxSubs : Unsubscribe(s)
  \/ Deliver

SpecOrder == Init /\ [][NextOrder]_vars

\* Correlation ids: emit with no id, with the caller's id, and with the id
\* the latest uuidv4() call returned.
NextIds ==
  \/ \E type \in TopicType : ~Registered("a") /\ RegisterTopic("a", type, 1)
  \/ \E message \in {1, Undefined},
        correlationId \in {Undefined, Null, CustomId} \cup {n \in {uuidCount} : n > 0} :
       Emit("a", message, correlationId)
  \/ GetStream("a", "a")
  \/ Deliver

SpecIds == Init /\ [][NextIds]_vars

\* Every bus operation on two names.
Next ==
  \/ \E name \in TopicNames, type \in {PublishSubject, ReplaySubject} :
       RegisterTopic(name, type, 1)
  \/ \E name \in TopicNames : GetTopic(name)
  \/ \E name \in TopicNames : Emit(name, 1, Undefined)
  \/ \E name \in TopicNames : GetStream(name, "")
  \/ \E dst \in TopicNames : ConnectTopics("a", dst, "len")
  \/ \E name \in TopicNames : InjectStream(name, "len", FALSE)
  \/ SourceNext(1)
  \/ Deliver

Spec == Init /\ [][Next]_vars

\* Connections from topic a to topic b, total and partial mappers, every
\* payload, emit with and without a correlation id.
NextConn ==
  \/ \E type \in {PublishSubject, ReplaySubject} :
       ~Registered("a") /\ RegisterTopic("a", type, 1)
  \/ ~Registered("b") /\ RegisterTopic("b", PublishSubject, 1)
  \/ \E message \in Values \cup {Null}, correlationId \in {Undefined, CustomId} :
       Emit("a", message, correlationId)
  \/ GetStream("b", "")
  \/ \E mapper \in Mappers : ConnectTopics("a", "b", mapper)
  \/ Deliver

SpecConn == Init /\ [][NextConn]_vars

\* Failures on a connection: a mapper that throws, and a source topic that
\* fails because a stream injected into it fails.
NextFail ==
  \/ \E name \in TopicNames : ~Registered(name) /\ RegisterTopic(name, PublishSubject, 1)
  \/ \E message \in Values : Emit("a", message, Undefined)
  \/ Emit("b", 1, Undefined)
  \/ \E name \in TopicNames : GetStream(name, "")
  \/ \E mapper \in Mappers : ConnectTopics("a", "b", mapper)
  \/ InjectStream("a", "len", FALSE)
  \/ SourceError
  \/ Deliver

SpecFail == Init /\ [][NextFail]_vars

\* Streams injected into one topic.
NextInject ==
  \/ \E type \in TopicType : ~Registered("a") /\ RegisterTopic("a", type, 1)
  \/ \E mapper \in Mappers, provider \in BOOLEAN : InjectStream("a", mapper, provider)
  \/ \E value \in Values : SourceNext(value)
  \/ GetStream("a", "")
  \/ Emit("a", 1, Undefined)
  \/ Deliver

SpecInject == Init /\ [][NextInject]_vars

\* A topic of any delivery mode with a consumer and an injected stream,
\* closed through its Topic object while it stays registered.
NextClose ==
  \/ \E type \in TopicType : ~Registered("a") /\ RegisterTopic("a", type, 1)
  \/ GetStream("a", "")
  \/ InjectStream("a", "len", FALSE)
  \/ SourceNext(1)
  \/ SourceError
  \/ Emit("a", 1, Undefined)
  \/ TopicClose(1)
  \/ Deliver

SpecClose == Init /\ [][NextClose]_vars

\* Two topics with a connection, an injected stream and a consumer; a topic
\* may be closed through its Topic object, the bus is closed and may be used
\* again afterwards.
NextBusClose ==
  \/ \E name \in TopicNames :
       ~Registered(name) /\ RegisterTopic(name, PublishSubject, 1)
  \/ Registered("a") /\ Registered("b") /\ ConnectTopics("a", "b", "len")
  \/ Registered("a") /\ InjectStream("a", "len", FALSE)
  \/ Registered("b") /\ GetStream("b", "")
  \/ Registered("a") /\ Emit("a", 1, Undefined)
  \/ \E tid \in 1 .. MaxTopics : TopicClose(tid)
  \/ BusClose
  \/ Deliver

SpecBusClose == Init /\ [][NextBusClose]_vars

\* One name registered, closed (through the first Topic object or the bus)
\* and registered again, with consumers and emits through the bus and
\* through the retained first Topic object.  The first topic has any
\* delivery mode, the ones registered after it the default one.
NextReopen ==
  \/ \E type \in TopicType :
       /\ ~Registered("a")
       /\ topics # <<>> => type = PublishSubject
       /\ RegisterTopic("a", type, 1)
  \/ GetStream("a", "")
  \/ Emit("a", 1, Undefined)
  \/ TopicEmit(1, 2)
  \/ TopicClose(1)
  \/ BusClose
  \/ Deliver

SpecReopen == Init /\ [][NextReopen]_vars

\* A topology hook over topics a and b: a chain, a diamond and a pair of
\* siblings under every built-in combiner, with processor functions that
\* throw on 5, and a definition whose output node is not defined.
Definitions ==
  {Chain(fn) : fn \in Fns}
    \cup {Diamond(c, fn) : c \in Combiners, fn \in Fns}
    \cup {Siblings(c, first) : c \in Combiners, first \in BOOLEAN}
    \cup {Dangling}

NextEngine ==
  \/ \E def \in Definitions : UseTopology(def)
  \/ \E name \in TopicNames, v \in InputValues :
       name \in {topology.topics[id] : id \in DOMAIN topology.topics} /\ TopicNext(name, v)
  \/ Unmount

SpecEngine == Init /\ [][NextEngine]_vars

\* One or two processors in a row over topic a, the first one returning
\* SKIP for the values up to 5, fed 3 and 10.
SkipValues == {3, 10}

SkipDefinitions == {Chain(fn) : fn \in {"above5", "pack"}} \cup {Staged(fn) : fn \in {"above5", "pack"}}

NextSkip ==
  \/ \E def \in SkipDefinitions : UseTopology(def)
  \/ \E v \in SkipValues : TopicNext("a", v)
  \/ Unmount

SpecSkip == Init /\ [][NextSkip]_vars

\* One processor over topics a and b under each built-in combiner and
\* without combiner; each topic gives up to MaxInputs values.
PairDefinitions == {Pair(c) : c \in Combiners \cup {"none"}}

FirstValues == {1, 2}
SecondValues == {7, 8}

NextCombine ==
  \/ \E def \in PairDefinitions : UseTopology(def)
  \/ \E v \in FirstValues : TopicGives("a", v)
  \/ \E v \in SecondValues : TopicGives("b", v)
  \/ Unmount

SpecCombine == Init /\ [][NextCombine]_vars

\* One merge processor over topics a and b, topic a carrying numbers and
\* an array.
NextMerge ==
  \/ UseTopology(Pair("merge"))
  \/ \E v \in FirstValues \cup ArrayPayloads : TopicGives("a", v)
  \/ \E v \in SecondValues : TopicGives("b", v)
  \/ Unmount

SpecMerge == Init /\ [][NextMerge]_vars

\* A topology with declared parameters rendered with bindings that are
\* complete, incomplete or of the wrong type, and rendered again with
\* another binding while its topic gives values.
Num(n) == JsValue("number", n)
Bindings ==
  {[name \in ParamNames |-> IF name = "room" THEN room ELSE limit] :
     room \in {NoValue, Num(5), Num(6), JsValue("string", 0)},
     limit \in {NoValue, Num(1), JsValue("NaN", 0)}}

NextParams ==
  \/ \E def \in {RoomChain, LimitChain}, params \in Bindings :
       (hook.mounted => def = topology) /\ Render(def, params)
  \/ \E v \in InputValues : TopicNext("a", v)
  \/ Unmount

SpecParams == Init /\ [][NextParams]_vars

\* Builders derived from one topology(name) by param, topic, proc and output,
\* with node ids that are defined, undefined or empty; definitions built
\* from them and then given to useTopology.
OutputIds == {"p", "w", ""}

NextBuilder ==
  \/ builders = <<>> /\ NewBuilder
  \/ \E b \in 1 .. Len(builders) : BuilderParam(b, "room", "number")
  \/ \E b \in 1 .. Len(builders) : BuilderTopic(b, "t", "a")
  \/ \E b \in 1 .. Len(builders), input \in {"t", "w"} :
       BuilderProc(b, "p", Proc(<<input>>, "none", "pack"))
  \/ \E b \in 1 .. Len(builders), nodeId \in OutputIds : BuilderOutput(b, nodeId)
  \/ \E b \in 1 .. Len(builders) : Build(b)
  \/ \E i \in 1 .. Len(built) : built[i].error = "none" /\ UseTopology(Instance(i))
  \/ hook.mounted /\ TopicNext("a", 5)

SpecBuilder == Init /\ [][NextBuilder]_vars

\* Definitions built with processors whose inputs name one another, or
\* themselves, and then given to useTopology.
CycleInputs == {<<"p">>, <<"q">>, <<"t">>}

NextCycle ==
  \/ builders = <<>> /\ NewBuilder
  \/ \E b \in 1 .. Len(builders) : BuilderTopic(b, "t", "a")
  \/ \E b \in 1 .. Len(builders), inputs \in CycleInputs :
       BuilderProc(b, "p", Proc(inputs, "none", "pack"))
  \/ \E b \in 1 .. Len(builders) : BuilderProc(b, "q", Proc(<<"p">>, "none", "pack"))
  \/ \E b \in 1 .. Len(builders) : BuilderOutput(b, "p")
  \/ \E b \in 1 .. Len(builders) : Build(b)
  \/ \E i \in 1 .. Len(built) : built[i].error = "none" /\ UseTopology(Instance(i))
  \/ hook.mounted /\ TopicNext("a", 5)

SpecCycle == Init /\ [][NextCycle]_vars

\* Definitions with a topic and a processor that the output does not
\* reach, the topic bound to a registered or to an unregistered bus topic;
\* the same with the topic t, or the unreached processor, for the output.
LazyDefinitions ==
  {Spare(name) : name \in {"b", "z"}}
    \cup {[Spare("z") EXCEPT !.outputNode = id] : id \in {"t", "r"}}

NextLazy ==
  \/ \E def \in LazyDefinitions : UseTopology(def)
  \/ \E name \in BusTopics, v \in InputValues : TopicNext(name, v)
  \/ Unmount

SpecLazy == Init /\ [][NextLazy]_vars

\* One declared parameter with each of the five validators, bound to a
\* value of each kind: a string, a number, NaN, a boolean, a plain object,
\* null, an array, a function, or not bound at all.
ValidatorKinds == {"string", "number", "boolean", "object", "array"}
ValueKinds ==
  {"string", "number", "NaN", "boolean", "object", "null", "array", "function", "undefined"}

Typed(validator) == [Chain("pack") EXCEPT !.paramTypes = <<Param("room", validator)>>]

Bound(kind) == [EmptyBinding EXCEPT !["room"] = JsValue(kind, 0)]

NextValidators ==
  \/ \E validator \in ValidatorKinds, kind \in ValueKinds :
       Render(Typed(validator), Bound(kind))
  \/ \E v \in InputValues : TopicNext("a", v)
  \/ Unmount

SpecValidators == Init /\ [][NextValidators]_vars

\* One topic of any delivery mode with getStream and getRawStream
\* subscribers and payloads that getStream lets through.
NextRaw ==
  \/ \E type \in TopicType, size \in BufferSizes :
       ~Registered("a") /\ RegisterTopic("a", type, size)
  \/ \E message \in Values : Emit("a", message, Undefined)
  \/ GetStream("a", "")
  \/ GetRawStream("a")
  \/ Deliver

SpecRaw == Init /\ [][NextRaw]_vars

\* References obtained from GlobalSamsaraBus.getInstance at any time, and
\* a topic registered, used and closed through them.
NextGlobal ==
  \/ GetInstance
  \/ \E r \in 1 .. MaxReferences :
       Through(r) /\ ~Registered("a") /\ RegisterTopic("a", PublishSubject, 1)
  \/ \E r \in 1 .. MaxReferences : Through(r) /\ Emit("a", 1, Undefined)
  \/ \E r \in 1 .. MaxReferences : Through(r) /\ BusClose

SpecGlobal == Init /\ [][NextGlobal]_vars

\* One processor with one input, declaring any combiner or none, over a
\* topic whose payloads are numbers or an array.
SingleDefinitions == {Single(c) : c \in Combiners \cup {"none", "custom"}}

NextSingle ==
  \/ \E def \in SingleDefinitions : UseTopology(def)
  \/ \E v \in InputValues \cup ArrayPayloads : TopicGives("a", v)
  \/ Unmount

SpecSingle == Init /\ [][NextSingle]_vars

\* One topic of any delivery mode with getStream and getRawStream
\* subscribers and emits of a value, of undefined and of null.
NextNull ==
  \/ \E type \in TopicType, size \in BufferSizes :
       ~Registered("a") /\ RegisterTopic("a", type, size)
  \/ \E message \in {1, Undefined, Null} : Emit("a", message, Undefined)
  \/ GetStream("a", "")
  \/ GetRawStream("a")
  \/ Deliver

SpecNull == Init /\ [][NextNull]_vars

\* The hook rendered with a definition that resolves, one whose output is
\* unknown and one whose topic is not registered, and rendered again with
\* another of them while the topic gives values.
StatusDefinitions == {Chain("pack"), Staged("above5"), Dangling, [Spare("z") EXCEPT !.outputNode = "r"]}

NextStatus ==
  \/ \E def \in StatusDefinitions : Render(def, EmptyBinding)
  \/ \E v \in InputValues : TopicNext("a", v)
  \/ Unmount

SpecStatus == Init /\ [][NextStatus]_vars

\* Two topics and connections with a total mapper between any two of them,
\* a topic and itself included.
NextLoop ==
  \/ \E name \in TopicNames : ~Registered(name) /\ RegisterTopic(name, PublishSubject, 1)
  \/ \E sourceTopic \in TopicNames, destinationTopic \in TopicNames :
       Registered(sourceTopic) /\ Registered(destinationTopic)
         /\ ConnectTopics(sourceTopic, destinationTopic, "len")
  \/ Emit("a", 1, Undefined)
  \/ Deliver

SpecLoop == Init /\ [][NextLoop]_vars

\* A topic of any delivery mode fed by an injected stream that fails, with
\* a consumer and emits through the bus and through the Topic object.
NextError ==
  \/ \E type \in TopicType : ~Registered("a") /\ RegisterTopic("a", type, 1)
  \/ GetStream("a", "")
  \/ InjectStream("a", "len", FALSE)
  \/ SourceNext(1)
  \/ SourceError
  \/ Emit("a", 1, Undefined)
  \/ TopicEmit(1, 2)
  \/ Deliver

SpecError == Init /\ [][NextError]_vars


\* ---------------------------------------------------------- properties
Min(a, b) == IF a <= b THEN a ELSE b

\* an emission as a consumer can tell it from the others: the number of the
\* emit call and the payload
Item(envelope) == <<envelope.seq, envelope.payload>>

\* the emit calls number from + 1 to number to of topic t, in call order
Emitted(t, from, to) ==
  [i \in 1 .. (to - from) |-> Item(topics[t].log[from + i].env)]

\* what subscriber s was called with, in order
Got(s) == [i \in 1 .. Len(subs[s].got) |-> Item(subs[s].got[i])]

\* the last emit call made on the topic while s was subscribed
End(s) == IF subs[s].closed THEN subs[s].until ELSE Len(topics[subs[s].topic].log)

Consumers(type) ==
  {s \in 1 .. Len(subs) :
     subs[s].kind = "stream" /\ topics[subs[s].topic].subject.type = type}

\* C1: on a LatestCached topic a consumer subscribed before any emit has
\* received nothing until the first emit, and a consumer subscribed after
\* some emits has received the latest of them, then every emission made
\* while it was subscribed, in emit order.
C1_LatestCached ==
  Idle => \A s \in Consumers(BehaviorSubject) :
    Got(s) = Emitted(subs[s].topic, subs[s].since - Min(subs[s].since, 1), subs[s].since)
             \o Emitted(subs[s].topic, subs[s].since, End(s))

\* C2: on a ReplayBuffered(n) topic a consumer subscribed after k emits has
\* received the last min(k, n) of them in emit order, then every emission
\* made while it was subscribed, in emit order.
C2_ReplayBuffered ==
  Idle => \A s \in Consumers(ReplaySubject) :
    Got(s) = Emitted(subs[s].topic,
                     subs[s].since - Min(subs[s].since, topics[subs[s].topic].requested),
                     subs[s].since)
             \o Emitted(subs[s].topic, subs[s].since, End(s))

\* C3: on a Basic topic a consumer has received exactly the emissions made
\* while it was subscribed, in emit order, and none made before.
C3_Basic ==
  Idle => \A s \in Consumers(PublishSubject) :
    Got(s) = Emitted(subs[s].topic, subs[s].since, End(s))


\* A getStream subscription that is still subscribed.
StaysSubscribed(s) == subs[s].kind = "stream" /\ ~subs[s].closed

\* C4: within one topic every consumer that stays subscribed receives the
\* emissions in the order in which emit was called on the topic, also for
\* emit calls made from inside a subscriber callback during a delivery.
C4_EmitOrder ==
  \A s \in 1 .. Len(subs) :
    StaysSubscribed(s) =>
      \A i, j \in 1 .. Len(subs[s].got) :
        i < j => subs[s].got[i].seq < subs[s].got[j].seq

\* Everything but the record of the last call.
state == <<registry, topics, subs, connections, source, sourceCount, uuidCount,
           emitCount, stack, unhandled>>

\* C5: registerTopic with a name that is already registered throws the
\* duplicate-topic error and changes nothing: the registry still maps the
\* name to the same Topic, and no topic's subject, observers or history change.
C5_DuplicateRegister ==
  [][(Idle /\ ret'.op = "registerTopic" /\ ret'.known)
       => (ret'.err = "exists" /\ UNCHANGED state)]_vars

\* a duplicate registration of a topic that has history and a subscriber
C5_Witness ==
  /\ ret.op = "registerTopic" /\ ret.known /\ ret.err = "exists"
  /\ \E n \in TopicNames :
       /\ Registered(n)
       /\ topics[registry[n]].log # <<>>
       /\ topics[registry[n]].subject.observers # <<>>

\* The bus calls that take topic names.
NamedOps == {"getTopic", "emit", "getStream", "injectStream", "connectTopics"}

\* C6: getTopic, emit, getStream, injectStream and connectTopics called with
\* a name that is not registered (for connectTopics: either name) throw the
\* unknown-topic error and change nothing.
C6_UnknownTopic ==
  [][(Idle /\ ret'.op \in NamedOps /\ ~ret'.known)
       => (ret'.err = "missing" /\ UNCHANGED state)]_vars

\* connectTopics from a registered source with subscribers to an
\* unregistered destination has thrown
C6_Witness ==
  /\ ret.op = "connectTopics" /\ ~ret.known /\ ret.err = "missing"
  /\ Registered("a") /\ ~Registered("b")
  /\ topics[registry["a"]].subject.observers # <<>>

\* The ids uuidv4 has returned so far.
Generated == {Uuid(k) : k \in 1 .. uuidCount}

\* C7: emit returns the correlation id of the envelope it emitted: the
\* supplied id when one is supplied (also one that an earlier emit returned),
\* otherwise an id that was never generated before.
C7_EmitReturnsId ==
  [][(Idle /\ ret'.op = "emit" /\ ret'.err = "none")
       => /\ \E t \in 1 .. Len(topics) :
               /\ Len(topics'[t].log) = Len(topics[t].log) + 1
               /\ topics'[t].log[Len(topics'[t].log)].env.seq = ret'.seq
               /\ topics'[t].log[Len(topics'[t].log)].env.correlationId = ret'.val
          /\ stack' # <<>> =>
               \A i \in 1 .. Len(stack'[1]) : stack'[1][i].env.correlationId = ret'.val
          /\ ~Nullish(ret'.arg) => ret'.val = ret'.arg
          /\ Nullish(ret'.arg) => ret'.val \notin Generated \cup {CustomId}]_vars

\* an emit was given the id that an earlier emit without correlationId had
\* generated, and the two envelopes carry the same id
C7_Witness ==
  /\ ret.op = "emit" /\ ret.err = "none" /\ ret.arg = ret.val
  /\ ret.val \in Generated
  /\ \E t \in 1 .. Len(topics) : \E i, j \in 1 .. Len(topics[t].log) :
       /\ i < j
       /\ topics[t].log[j].env.seq = ret.seq
       /\ topics[t].log[i].by = 0
       /\ topics[t].log[i].env.correlationId = ret.val
       /\ topics[t].subject.observers # <<>>

\* The emissions of the connection's source made after connectTopics whose
\* mapping is defined, and the emissions the connection made on its
\* destination because of them.
SourceEmissions(s) ==
  SelectSeq(SubSeq(topics[subs[s].topic].log, subs[s].since + 1,
                   Len(topics[subs[s].topic].log)),
            LAMBDA e : ~Throws(subs[s].mapper, e.env.payload))

Mapped(s) ==
  SelectSeq(topics[subs[s].dest].log,
            LAMBDA d : /\ d.by = s
                       /\ \E i \in subs[s].since + 1 .. Len(topics[subs[s].topic].log) :
                            topics[subs[s].topic].log[i].env.seq = d.cause)

\* C8: after connectTopics(source, dest, f) every emit(source, x) causes
\* exactly one emission of f(x) on dest, in source order, under a
\* correlation id other than the one of x's envelope.
C8_ConnectionMaps ==
  Idle => \A s \in 1 .. Len(subs) :
    subs[s].kind = "conn" =>
      /\ Len(Mapped(s)) = Len(SourceEmissions(s))
      /\ \A i \in 1 .. Len(Mapped(s)) :
           /\ Mapped(s)[i].cause = SourceEmissions(s)[i].env.seq
           /\ Mapped(s)[i].env.payload = Apply(subs[s].mapper, SourceEmissions(s)[i].env.payload)
           /\ Mapped(s)[i].env.correlationId # SourceEmissions(s)[i].env.correlationId

\* C9: a mapper that throws, or a failure of the source stream, does not
\* terminate a topic connection: the connection stays subscribed, every
\* later source emission whose mapping succeeds is emitted on the
\* destination, and the emit calls return normally.
C9_ConnectionSurvives ==
  /\ (ret.op = "emit" /\ ret.known) => ret.err = "none"
  /\ \A s \in 1 .. Len(subs) :
       subs[s].kind = "conn" =>
         /\ ~subs[s].closed
         /\ Idle => \A i \in 1 .. Len(SourceEmissions(s)) :
                      \E j \in 1 .. Len(Mapped(s)) :
                        Mapped(s)[j].cause = SourceEmissions(s)[i].env.seq

\* The values the injection's mapper returned for, and the emissions the
\* injection made on its topic.
Mappable(s) == SelectSeq(subs[s].got, LAMBDA v : ~Throws(subs[s].mapper, v.payload))

Injected(s) == SelectSeq(topics[subs[s].dest].log, LAMBDA d : d.by = s)

\* The envelopes constructed so far: the emitted ones and the placeholders.
Envelopes ==
  UNION {{topics[t].log[i].env : i \in 1 .. Len(topics[t].log)}
           \cup {topics[t].subject.buffer[i] : i \in 1 .. Len(topics[t].subject.buffer)}
         : t \in 1 .. Len(topics)}

\* C10: after injectStream every value the source produces reaches the
\* injection, and every value v the mapper maps is emitted exactly once on
\* the topic as mapper(v), in source order, under the provider's id when a
\* provider was given and under an id no other envelope carries otherwise.
C10_InjectEmits ==
  \A s \in 1 .. Len(subs) :
    subs[s].kind = "inject" =>
      /\ Idle => Len(subs[s].got) = sourceCount - subs[s].since
      /\ \A i \in 1 .. Len(subs[s].got) : subs[s].got[i].seq = subs[s].since + i
      /\ Len(Injected(s)) = Len(Mappable(s))
      /\ \A i \in 1 .. Len(Injected(s)) :
           /\ Injected(s)[i].cause = Mappable(s)[i].seq
           /\ Injected(s)[i].env.payload = Apply(subs[s].mapper, Mappable(s)[i].payload)
           /\ IF subs[s].provider
              THEN Injected(s)[i].env.correlationId = CustomId
              ELSE /\ Injected(s)[i].env.correlationId \in Generated
                   /\ \A e \in Envelopes :
                        e.correlationId = Injected(s)[i].env.correlationId
                          => e = Injected(s)[i].env

\* an injection with a provider and one without have both emitted, and
\* the topic has a consumer
C10_Witness ==
  /\ Idle
  /\ \E s, r \in 1 .. Len(subs) :
       /\ subs[s].kind = "inject" /\ subs[s].provider /\ Injected(s) # <<>>
       /\ subs[r].kind = "inject" /\ ~subs[r].provider /\ Len(Injected(r)) >= 1
       /\ sourceCount >= 2

\* The subscribers that observe topic t (consumers and connections).
ObserversOf(t) ==
  {s \in 1 .. Len(subs) : subs[s].kind # "inject" /\ subs[s].topic = t}

\* the emit calls made on topic t after its subject was stopped
AfterStop(t) ==
  {topics[t].log[i].env.seq : i \in topics[t].stoppedAt + 1 .. Len(topics[t].log)}

\* C11: when an injected stream signals an error, the topic's subject is
\* stopped with that error, every subscriber of the topic is sent the error,
\* and no subscriber receives an emit made on the topic afterwards.
C11_InjectedError ==
  \A j \in 1 .. Len(subs) :
    (subs[j].kind = "inject" /\ subs[j].signal = "E") =>
      /\ topics[subs[j].dest].subject.isStopped
      /\ topics[subs[j].dest].subject.hasError
      /\ topics[subs[j].dest].subject.observers = <<>>
      /\ \A s \in ObserversOf(subs[j].dest) :
           /\ Idle => (subs[s].closed /\ subs[s].signal = "E")
           /\ \A i \in 1 .. Len(subs[s].got) :
                subs[s].got[i].seq \notin AfterStop(subs[j].dest)

\* the injected stream failed while the topic had a consumer that had
\* received a value, and an emit was made on the topic afterwards
C11_Witness ==
  /\ Idle
  /\ \E j, s \in 1 .. Len(subs) :
       /\ subs[j].kind = "inject" /\ subs[j].signal = "E"
       /\ s \in ObserversOf(subs[j].dest)
       /\ subs[s].got # <<>> /\ subs[s].signal = "E"
       /\ subs[s].since < topics[subs[j].dest].stoppedAt
       /\ AfterStop(subs[j].dest) # {}

\* The elements of a sequence.
Range(seq) == {seq[i] : i \in 1 .. Len(seq)}

\* whether topic t was completed by close() and not failed before
Completed(t) == topics[t].subject.isStopped /\ ~topics[t].subject.hasError

\* what holds of a topic once it is closed: its consumers are sent the
\* completion and no error, an injection that close unsubscribed emits
\* nothing afterwards, and no consumer receives an emit made after close
ClosedTopic(t) ==
  /\ \A s \in ObserversOf(t) :
       /\ subs[s].signal # "E"
       /\ Idle => (subs[s].closed /\ subs[s].signal = "C")
       /\ \A i \in 1 .. Len(subs[s].got) : subs[s].got[i].seq \notin AfterStop(t)
  /\ \A j \in 1 .. Len(subs) :
       (subs[j].kind = "inject" /\ subs[j].dest = t /\ subs[j].released > 0) =>
         \A i \in subs[j].until + 1 .. Len(topics[t].log) : topics[t].log[i].by # j

\* C12: Topic.close unsubscribes every injected-stream subscription of the
\* topic, empties the list and completes the subject: the observers are sent
\* the completion, and afterwards no value of the injected source and no
\* emit reaches the topic's subscribers.
C12_TopicClose ==
  [][/\ (Idle /\ ret'.op = "topicClose") =>
          /\ topics'[ret'.val].externalSubscriptions = <<>>
          /\ \A j \in Range(topics[ret'.val].externalSubscriptions) :
               subs'[j].closed /\ j \notin Range(source'.observers)
          /\ topics'[ret'.val].subject.isStopped
          /\ topics'[ret'.val].subject.observers = <<>>
          /\ \A s \in Range(topics[ret'.val].subject.observers) :
               \E i \in 1 .. Len(stack'[1]) :
                 stack'[1][i].sub = s /\ stack'[1][i].sig = "C"
     /\ \A t \in 1 .. Len(topics') : Completed(t)' => ClosedTopic(t)']_vars

\* a topic with a consumer and a live injected stream was closed, and
\* afterwards the source produced a value and an emit was made
C12_Witness ==
  /\ Idle
  /\ sourceCount >= 2
  /\ \E t \in 1 .. Len(topics) : \E s, j \in 1 .. Len(subs) :
       /\ Completed(t) /\ AfterStop(t) # {}
       /\ s \in ObserversOf(t) /\ subs[s].signal = "C" /\ subs[s].got # <<>>
       /\ subs[j].kind = "inject" /\ subs[j].dest = t
       /\ subs[j].released = 1 /\ subs[j].signal = "" /\ subs[j].got # <<>>

\* C13: Bus.close unsubscribes every connection, then closes every
\* registered topic, then clears the registry: from the call until the next
\* call no subscriber receives a value (the topics' observers are sent the
\* completion, the connections nothing), afterwards no name is registered,
\* and close on a bus that holds no topic and no connection changes nothing.
C13_BusClose ==
  [][/\ (Idle /\ ret'.op = "close") =>
          /\ ret'.err = "none"
          /\ registry' = [n \in TopicNames |-> 0]
          /\ connections' = <<>>
          /\ \A c \in Range(connections) :
               /\ subs'[c].closed /\ subs'[c].signal = subs[c].signal
               /\ \A t \in 1 .. Len(topics) : c \notin Range(topics'[t].subject.observers)
               /\ stack' # <<>> => \A i \in 1 .. Len(stack'[1]) : stack'[1][i].sub # c
          /\ \A t \in Range(RegisteredTopics) :
               /\ topics'[t].subject.isStopped
               /\ topics'[t].externalSubscriptions = <<>>
               /\ \A s \in Range(topics[t].subject.observers) \ Range(connections) :
                    \E i \in 1 .. Len(stack'[1]) :
                      stack'[1][i].sub = s /\ stack'[1][i].sig = "C"
          /\ stack' # <<>> => \A i \in 1 .. Len(stack'[1]) : stack'[1][i].sig = "C"
          /\ (RegisteredTopics = <<>> /\ connections = <<>>) => UNCHANGED state
     /\ ret'.op = "close" =>
          \A s \in 1 .. Len(subs) : subs'[s].got = subs[s].got]_vars

\* the bus was closed while a connection had mapped a value and the
\* destination had a consumer that had received it
C13_Witness ==
  /\ Idle /\ ret.op = "close"
  /\ \A n \in TopicNames : ~Registered(n)
  /\ Len(topics) = 2
  /\ \E c, s \in 1 .. Len(subs) :
       /\ subs[c].kind = "conn" /\ subs[c].got # <<>> /\ subs[c].released = 1
       /\ subs[s].kind = "stream" /\ subs[s].got # <<>> /\ subs[s].signal = "C"

\* The subscription handles the bus and its topics create and keep.
Handles == {s \in 1 .. Len(subs) : subs[s].kind \in {"conn", "inject"}}

\* C14: each handle created by connectTopics or injectStream is
\* unsubscribed at most once, and once Bus.close has returned every handle
\* has been unsubscribed exactly once and observes nothing any more.
C14_ReleasedOnce ==
  \A s \in Handles :
    /\ subs[s].released <= 1
    /\ subs[s].released = 1 => subs[s].closed
    /\ (Idle /\ ret.op = "close") =>
         /\ subs[s].released = 1
         /\ s \notin Range(source.observers)
         /\ \A t \in 1 .. Len(topics) :
              /\ s \notin Range(topics[t].subject.observers)
              /\ s \notin Range(topics[t].externalSubscriptions)

\* the bus was closed after a topic with an injected stream had been closed
\* through its Topic object (an emit was made in between) and a connection
\* existed
C14_Witness ==
  /\ Idle /\ ret.op = "close"
  /\ \E j, c \in Handles :
       /\ subs[j].kind = "inject" /\ subs[j].released = 1
       /\ subs[j].until < Len(topics[subs[j].dest].log)
       /\ subs[c].kind = "conn" /\ subs[c].released = 1

\* the numbers of the emit calls whose value subscriber s received
GotSeqs(s) == {subs[s].got[i].seq : i \in 1 .. Len(subs[s].got)}

\* what holds of the consumers after any number of unsubscribe calls: one
\* that unsubscribed has received no emit made since, one that stays
\* subscribed has received every emit made since it subscribed that
\* getStream lets through
Disposed ==
  \A s \in 1 .. Len(subs) :
    subs[s].kind = "stream" =>
      /\ subs[s].released > 0 =>
           \A i \in subs[s].until + 1 .. Len(topics[subs[s].topic].log) :
             topics[subs[s].topic].log[i].env.seq \notin GotSeqs(s)
      /\ (Idle /\ StaysSubscribed(s)) =>
           \A i \in subs[s].since + 1 .. Len(topics[subs[s].topic].log) :
             StreamPasses(topics[subs[s].topic].log[i].env) =>
               topics[subs[s].topic].log[i].env.seq \in GotSeqs(s)

\* C15: a consumer that unsubscribes receives no further emission, and the
\* unsubscribe changes nothing else: the topic stays open with the same
\* history and the same other observers, and every other subscriber is
\* untouched and keeps receiving the later emissions.
C15_Unsubscribe ==
  [][/\ (Idle /\ ret'.op = "unsubscribe") =>
          /\ subs'[ret'.val].closed
          /\ subs'[ret'.val].got = subs[ret'.val].got
          /\ \A r \in 1 .. Len(subs) : r # ret'.val => subs'[r] = subs[r]
          /\ topics' = [topics EXCEPT ![subs[ret'.val].topic].subject.observers =
                          SelectSeq(@, LAMBDA o : o # ret'.val)]
          /\ UNCHANGED <<registry, connections, source, sourceCount, uuidCount,
                         emitCount, stack, unhandled>>
     /\ Disposed']_vars

\* one of two consumers unsubscribed after receiving a value, and the other
\* received an emission made afterwards
C15_Witness ==
  /\ Idle
  /\ \E s, r \in 1 .. Len(subs) :
       /\ s # r /\ subs[s].topic = subs[r].topic
       /\ subs[s].kind = "stream" /\ subs[s].released = 1 /\ subs[s].got # <<>>
       /\ StaysSubscribed(r)
       /\ \E i \in subs[s].until + 1 .. Len(topics[subs[r].topic].log) :
            topics[subs[r].topic].log[i].env.seq \in GotSeqs(r)

\* whether close() was called on Topic object t or its subject failed
Ended(t) == topics[t].stoppedAt >= 0

\* C16: closing is irreversible.  A closed Topic object stays stopped
\* without observers whatever is called later, registering its name again
\* creates another Topic object and leaves the closed one as it is, a
\* subscriber that was sent the completion never receives anything again,
\* and no subscriber of the closed topic receives an emit made after close.
C16_Irreversible ==
  [][/\ \A t \in 1 .. Len(topics) :
          Ended(t) =>
            /\ topics[t].subject.isStopped
            /\ topics'[t].subject.isStopped
            /\ topics'[t].subject.observers = <<>>
            /\ topics'[t].stoppedAt = topics[t].stoppedAt
            /\ \A s \in ObserversOf(t) :
                 \A i \in 1 .. Len(subs'[s].got) : subs'[s].got[i].seq \notin AfterStop(t)'
     /\ \A s \in 1 .. Len(subs) :
          subs[s].signal = "C" => (subs'[s].got = subs[s].got /\ subs'[s].closed)
     /\ (Idle /\ ret'.op = "registerTopic" /\ ret'.err = "none") =>
          /\ ret'.val = Len(topics) + 1
          /\ \A t \in 1 .. Len(topics) : topics'[t] = topics[t]]_vars

\* a topic with a consumer that had received a value was closed, its name
\* was registered again, and emits were made on the new topic and through
\* the closed Topic object
C16_Witness ==
  /\ Idle
  /\ Len(topics) = 2 /\ registry["a"] = 2
  /\ Ended(1) /\ AfterStop(1) # {}
  /\ topics[2].log # <<>>
  /\ \E s \in ObserversOf(1) : subs[s].signal = "C" /\ subs[s].got # <<>>

\* the invocations of the function of node nodeId made while the k-th value
\* of the topic streams was handled
Invocations(nodeId, k) ==
  {i \in 1 .. Len(hook.calls) : hook.calls[i].node = nodeId /\ hook.calls[i].cause = k}

\* C17: in one resolution pass every node's stream is constructed once, and
\* the function of a processor whose only input is a topic is invoked at
\* most once for each value the topic emits, however many nodes consume
\* the processor.
C17_Diamond ==
  /\ \A nodeId \in nodeStreams.streams : Count(nodeStreams.built, nodeId) = 1
  /\ \A nodeId \in DOMAIN topology.processors :
       (/\ Len(topology.processors[nodeId].inputs) = 1
        /\ IsTopic(topology, topology.processors[nodeId].inputs[1]))
         => \A k \in 1 .. Len(emitted) : Cardinality(Invocations(nodeId, k)) <= 1

\* C18: a processor whose function throws for one value keeps processing
\* the later ones: the output of a single processor over one topic is the
\* result for every value on which the function does not throw, in order.
C18_KeepsProcessing ==
  \A fn \in Fns :
    topology = Chain(fn) =>
      LET passed == SelectSeq(ValuesOf("a"), LAMBDA v : ~FnThrows(fn, <<v>>))
      IN hook.outputs = [i \in 1 .. Len(passed) |-> FnResult(fn, <<passed[i]>>)]

\* the invocations in which a processor function threw
Thrown ==
  {i \in 1 .. Len(hook.calls) :
     FnThrows(topology.processors[hook.calls[i].node].fn, hook.calls[i].args)}

\* C19: a processor function that throws is absorbed at its node: the node
\* is named in the log, the output subscriber's error handler is not run,
\* and status 'error' with an error is what a failed resolution gives only.
C19_Absorbed ==
  /\ \A i \in Thrown : hook.calls[i].node \in hook.warned
  /\ Thrown # {} => hook.status # "error" /\ hook.error = "none"
  /\ hook.status = "error" <=> nodeStreams.failed
  /\ hook.error # "none" <=> nodeStreams.failed

\* a function threw in a node that feeds the output node through other
\* nodes, and later values reached the consumer or not
C19_Witness ==
  /\ Thrown # {}
  /\ hook.status \in {"loading", "success"}
  /\ \E i \in Thrown : hook.calls[i].node # topology.outputNode
  /\ Len(emitted) = MaxInputs

\* whether a value of the sibling q alone makes the combiner emit, p having
\* emitted before: not under zip, which needs a value of p for each of q,
\* nor under withLatestFrom when p is the first input
SiblingDrives(c, first) == c # "zip" /\ ~(c = "withLatestFrom" /\ first)

\* C20: a throw in one node leaves the node combining it with a sibling
\* running under every built-in combiner: once p has thrown, the output
\* node has not completed and is still subscribed, and where a value of the
\* sibling makes the combiner emit, each later value of the sibling's topic
\* invokes the output node's function, p having given a value before.
C20_SiblingsFlow ==
  \A c \in Combiners, first \in BOOLEAN :
    (topology = Siblings(c, first) /\ hook.mounted /\ "p" \in hook.warned) =>
      /\ ~hook.completed
      /\ hook.insts[<<>>].live
      /\ (/\ SiblingDrives(c, first)
          /\ emitted[Len(emitted)].topic = "b"
          /\ \E i \in 1 .. Len(hook.calls) :
               hook.calls[i].node = "p" /\ i \notin Thrown)
           => Invocations("out", Len(emitted)) # {}

\* the invocations of the function of node nodeId, in order
CallsOf(nodeId) == SelectSeq(hook.calls, LAMBDA c : c.node = nodeId)

\* C21: a processor that returns SKIP for some inputs is invoked once per
\* input value, in input order, and what follows it (the consumer, or the
\* next processor and then the consumer) gets exactly the results of the
\* values it did not skip, in input order: nothing for 3, one for 10.
C21_Skip ==
  \A fn \in {"above5", "pack"} :
    topology \in {Chain(fn), Staged(fn)} =>
      LET kept == SelectSeq(ValuesOf("a"), LAMBDA v : fn = "pack" \/ v > 5)
      IN /\ [i \in 1 .. Len(CallsOf("p")) |-> CallsOf("p")[i].args] =
              [i \in 1 .. Len(emitted) |-> <<emitted[i].value>>]
         /\ hook.outputs = [i \in 1 .. Len(kept) |-> FnResult(fn, <<kept[i]>>)]
         /\ topology = Staged(fn) =>
              [i \in 1 .. Len(CallsOf("q")) |-> CallsOf("q")[i].args] =
                [i \in 1 .. Len(kept) |-> <<FnResult(fn, <<kept[i]>>)>>]

\* the processor was given 3 and then 10, and the consumer got 10 alone
C21_Witness ==
  /\ topology \in {Chain("above5"), Staged("above5")}
  /\ Len(emitted) >= 2 /\ emitted[1].value = 3 /\ emitted[2].value = 10
  /\ Len(hook.outputs) >= 1 /\ hook.outputs[1] = 10
  /\ hook.data = hook.outputs[Len(hook.outputs)]

\* the argument lists the function of node nodeId was invoked with, in order
ArgsGiven(nodeId) == [i \in 1 .. Len(CallsOf(nodeId)) |-> CallsOf(nodeId)[i].args]

\* the positions of emitted, in order
Positions == [k \in 1 .. Len(emitted) |-> k]

\* whether topic name gave a value among the first k, and the last it gave
HasGiven(name, k) == \E i \in 1 .. k : emitted[i].topic = name
LatestAt(name, k) ==
  emitted[CHOOSE i \in 1 .. k :
            /\ emitted[i].topic = name
            /\ \A j \in i + 1 .. k : emitted[j].topic # name].value

\* C22: under zip the function is invoked once per index n with the n-th
\* value of topic a and the n-th value of topic b, in index order, whatever
\* the interleaving, and the consumer gets the results in that order.
C22_Zip ==
  topology = Pair("zip") =>
    LET A == ValuesOf("a")
        B == ValuesOf("b")
        pairs == [n \in 1 .. Min(Len(A), Len(B)) |-> <<A[n], B[n]>>]
    IN /\ ArgsGiven("out") = pairs
       /\ hook.outputs = [n \in 1 .. Len(pairs) |-> FnResult("pack", pairs[n])]

\* topic a gave two values before topic b gave any, then b gave two: the
\* second pair was made of the two second values
C22_Witness ==
  /\ topology = Pair("zip")
  /\ Len(emitted) >= 4
  /\ emitted[1].topic = "a" /\ emitted[2].topic = "a" /\ emitted[1].value # emitted[2].value
  /\ emitted[3].topic = "b" /\ emitted[4].topic = "b" /\ emitted[3].value # emitted[4].value
  /\ Len(hook.outputs) = 2

\* C23: without combiner or under combineLatest nothing is invoked until
\* both topics have given a value; from then on each value of either topic
\* invokes the function once, with the latest value of a and of b in
\* declared order.
C23_CombineLatest ==
  topology \in {Pair("none"), Pair("combineLatest")} =>
    LET ready == SelectSeq(Positions, LAMBDA k : HasGiven("a", k) /\ HasGiven("b", k))
        tuples == [i \in 1 .. Len(ready) |-> <<LatestAt("a", ready[i]), LatestAt("b", ready[i])>>]
    IN /\ ArgsGiven("out") = tuples
       /\ [i \in 1 .. Len(CallsOf("out")) |-> CallsOf("out")[i].cause] = ready
       /\ hook.outputs = [i \in 1 .. Len(tuples) |-> FnResult("pack", tuples[i])]

\* without combiner: a gave values while b had given none, then b and a
\* gave values and each produced one invocation
C23_Witness ==
  /\ topology = Pair("none")
  /\ Len(emitted) >= 4
  /\ emitted[1].topic = "a" /\ emitted[2].topic = "a"
  /\ emitted[3].topic = "b" /\ emitted[4].topic = "a"
  /\ Len(hook.outputs) = Len(emitted) - 2

\* C24: under withLatestFrom the function is invoked exactly for the values
\* of the first input a given after b gave one, with that value and the
\* latest of b; a value of b invokes nothing, and a value of a given before
\* b's first is dropped for good.
C24_WithLatestFrom ==
  topology = Pair("withLatestFrom") =>
    LET fired == SelectSeq(Positions, LAMBDA k : emitted[k].topic = "a" /\ HasGiven("b", k))
        tuples == [i \in 1 .. Len(fired) |-> <<emitted[fired[i]].value, LatestAt("b", fired[i])>>]
    IN /\ ArgsGiven("out") = tuples
       /\ [i \in 1 .. Len(CallsOf("out")) |-> CallsOf("out")[i].cause] = fired
       /\ hook.outputs = [i \in 1 .. Len(tuples) |-> FnResult("pack", tuples[i])]

\* a gave a value before b's first (dropped), b gave two values (no
\* output), then a gave a value, paired with b's second
C24_Witness ==
  /\ topology = Pair("withLatestFrom")
  /\ Len(emitted) = 4
  /\ emitted[1].topic = "a" /\ emitted[2].topic = "b" /\ emitted[3].topic = "b"
  /\ emitted[4].topic = "a" /\ emitted[2].value # emitted[3].value
  /\ hook.outputs = <<FnResult("pack", <<emitted[4].value, emitted[3].value>>)>>

\* C25: under merge the function is invoked once for every value given by
\* either topic, with that one value, in the order the values were given.
C25_Merge ==
  topology = Pair("merge") =>
    ArgsGiven("out") = [k \in 1 .. Len(emitted) |-> <<emitted[k].value>>]

\* the names paramTypes declares
Declared(paramTypes) == {paramTypes[i].name : i \in 1 .. Len(paramTypes)}

\* C26: each binding gets its own resolution pass.  While the hook is
\* mounted its pass was resolved for the binding of the last render; what
\* the consumer got in this pass is exactly the values given in this pass
\* that equal this pass's room, whatever an earlier pass let through; every
\* invocation was made with the binding of its own pass; and a new pass
\* constructs each stream once and subscribes with nothing kept from the
\* pass before.
C26_Passes ==
  [][topology' \in {RoomChain, LimitChain} =>
       /\ hook'.mounted =>
            \A name \in Declared(topology'.paramTypes) : hook'.params[name] = hook'.rendered[name]
       /\ SubSeq(hook'.outputs, hook'.base + 1, Len(hook'.outputs)) =
            SelectSeq([i \in 1 .. Len(emitted') - hook'.since |-> emitted'[hook'.since + i].value],
                      LAMBDA v : v = hook'.params["room"].num)
       /\ \A i \in Len(hook.calls) + 1 .. Len(hook'.calls) : hook'.calls[i].params = hook'.params
       /\ SubSeq(hook'.calls, 1, Len(hook.calls)) = hook.calls
       /\ hook'.pass = hook.pass + 1 =>
            /\ nodeStreams'.built = <<"t", "p">>
            /\ \A p \in DOMAIN hook'.insts :
                 hook'.insts[p] = NewInstance(Arity(topology', NodeAt(topology', p)))
            /\ hook'.since = Len(emitted) /\ hook'.base = Len(hook.outputs)]_vars

\* a second pass with another room: the first pass let 5 through, the
\* second one skipped 5 and let 6 through
C26_Witness ==
  /\ hook.pass = 2 /\ hook.mounted
  /\ hook.params["room"] = Num(6)
  /\ hook.base = 1 /\ hook.outputs = <<5, 6>>
  /\ Len(emitted) = 3 /\ emitted[2].value = 5 /\ hook.since = 1

\* the declared parameters the last render left unbound, and the ones it
\* bound to a value their validator rejects
Unbound == {name \in Declared(topology.paramTypes) : hook.rendered[name] = NoValue}
Rejected ==
  {name \in Declared(topology.paramTypes) \ Unbound :
     \E i \in 1 .. Len(topology.paramTypes) :
       /\ topology.paramTypes[i].name = name
       /\ ~Validates(topology.paramTypes[i].validator, hook.rendered[name])}

\* C27: the binding is validated against every declared parameter before
\* anything is resolved.  A render throws exactly when some declared
\* parameter is unbound or rejected, the missing-parameter error for an
\* unbound one and the invalid-parameter error for a rejected one; the
\* render that throws resolves no node, creates no subscription and leaves
\* the hook without any live subscription.
C27_Validated ==
  [][/\ hook'.thrown # "none" <=> (Unbound' \cup Rejected') # {}
     /\ hook'.thrown = "missingParameter" => Unbound' # {}
     /\ hook'.thrown = "invalidParameter" => Rejected' # {}
     /\ Rejected' = {} /\ Unbound' # {} => hook'.thrown = "missingParameter"
     /\ Unbound' = {} /\ Rejected' # {} => hook'.thrown = "invalidParameter"
     /\ hook'.thrown # "none" =>
          /\ nodeStreams' = nodeStreams
          /\ hook'.pass = hook.pass /\ hook'.calls = hook.calls
          /\ hook'.status = hook.status /\ hook'.outputs = hook.outputs
          /\ ~hook'.mounted
          /\ \A p \in DOMAIN hook'.insts : ~hook'.insts[p].live
          /\ hook.pass = 0 => nodeStreams' = NoStreams /\ hook'.insts = <<>>]_vars

\* a first render with room unbound threw before anything was resolved
C27_Witness ==
  /\ hook.thrown = "missingParameter"
  /\ hook.pass = 0 /\ nodeStreams = NoStreams
  /\ topology = LimitChain
  /\ hook.rendered["room"] = NoValue /\ hook.rendered["limit"] = Num(1)

\* the node ids a builder's topics and processors define
NodeIds(builder) ==
  {objects[builder.topics][i].key : i \in 1 .. Len(objects[builder.topics])}
    \cup {objects[builder.processors][i].key : i \in 1 .. Len(objects[builder.processors])}

\* the builder's output id, one of ids, or an input of one of its
\* processors, is an id that no topic() or proc() call defined
NeverDefined(builder, ids) ==
  /\ builder.outputNode # <<>>
  /\ builder.outputNode[1] \in ids
  /\ \/ builder.outputNode[1] \notin NodeIds(builder)
     \/ \E i \in 1 .. Len(objects[builder.processors]) :
          \E k \in 1 .. Len(objects[builder.processors][i].value.inputs) :
            objects[builder.processors][i].value.inputs[k] \notin NodeIds(builder)

\* build() returns a definition for every such builder
BuildsUndefined(ids) ==
  \A i \in 1 .. Len(built) :
    NeverDefined(built[i].instance, ids) => built[i].error = "none"

\* the output id of the definition in use, or an input of its output
\* processor, is not a node of the definition
Unknown(def) ==
  \/ ~(IsTopic(def, def.outputNode) \/ IsProcessor(def, def.outputNode))
  \/ /\ IsProcessor(def, def.outputNode)
     /\ \E k \in 1 .. Len(def.processors[def.outputNode].inputs) :
          LET input == def.processors[def.outputNode].inputs[k]
          IN ~(IsTopic(def, input) \/ IsProcessor(def, input))

\* the hook that resolved such a definition reports the unknown-node error
\* and gives no output value
FailsAtResolution ==
  hook.mounted /\ Unknown(topology) =>
    /\ hook.status = "error"
    /\ hook.error = "unknownNode"
    /\ hook.outputs = <<>>
    /\ hook.data = Undefined

\* C28: build() succeeds for every definition whose output node id, or a
\* processor input id, was never defined by topic or proc; the failure comes
\* at resolution only, as the unknown-node error, which the consumer sees as
\* status 'error' carrying that error, and no output value is delivered.
C28_LateFailure == BuildsUndefined(OutputIds) /\ FailsAtResolution

\* C29: build() throws the missing-output error exactly when output was
\* never called on the builder's chain; whenever output(nodeId) was called,
\* for any node id string, build() returns a definition whose outputNode is
\* the id of the most recent output call.
C29_Build ==
  \A i \in 1 .. Len(built) :
    /\ built[i].error = "missingOutput" <=> builders[built[i].of].outputNode = <<>>
    /\ builders[built[i].of].outputNode # <<>> =>
         /\ built[i].error = "none"
         /\ built[i].instance.outputNode = builders[built[i].of].outputNode

\* what a builder holds: its output id and the contents of its three objects
Contents(builder) ==
  [params |-> objects[builder.params], topics |-> objects[builder.topics],
   processors |-> objects[builder.processors], outputNode |-> builder.outputNode]

\* C30: the builder is persistent: every param, topic, proc and output call
\* returns a new builder and leaves the builder it was called on, every
\* other builder and every definition already built unchanged.
C30_Persistent ==
  [][/\ \A b \in 1 .. Len(builders) :
          /\ Len(builders') >= b
          /\ builders'[b] = builders[b]
          /\ Contents(builders[b])' = Contents(builders[b])
     /\ \A i \in 1 .. Len(built) :
          /\ built'[i] = built[i]
          /\ Contents(built[i].instance)' = Contents(built[i].instance)]_vars

\* a builder was derived after a definition was built, and holds a
\* processor that a builder of the same chain does not hold
C30_Witness ==
  \E i \in 1 .. Len(built), b, c \in 1 .. Len(builders) :
    /\ built[i].error = "none"
    /\ b > built[i].of /\ b # c
    /\ builders[b].topics = builders[c].topics
    /\ Len(objects[builders[b].processors]) = 1
    /\ Len(objects[builders[c].processors]) = 0

\* the nodes a processor's inputs name, and the nodes reached from a set of
\* nodes through processor inputs
InputsOf(def, nodeId) ==
  IF IsProcessor(def, nodeId) /\ ~IsTopic(def, nodeId)
  THEN {def.processors[nodeId].inputs[k] : k \in 1 .. Len(def.processors[nodeId].inputs)}
  ELSE {}

RECURSIVE ReachedFrom(_, _)
ReachedFrom(def, nodes) ==
  LET more == nodes \cup UNION {InputsOf(def, id) : id \in nodes}
  IN IF more = nodes THEN nodes ELSE ReachedFrom(def, more)

\* some processor is reached from its own inputs
Cyclic(def) ==
  \E id \in DOMAIN def.processors : id \in ReachedFrom(def, InputsOf(def, id))

\* C31: a definition whose processor inputs form a cycle is rejected by
\* build() with a cycle error; no cyclic definition is ever returned by
\* build(), and resolution is never started on a cyclic graph.
C31_CycleRejected ==
  /\ \A i \in 1 .. Len(built) : built[i].error = "none" => ~Cyclic(Instance(i))
  /\ hook.pass > 0 => ~Cyclic(topology)

\* the nodes reachable from the output through processor inputs
Reachable(def) == ReachedFrom(def, {def.outputNode})

\* C32: resolution is lazy and minimal: only nodes reachable from the
\* output through processor inputs are resolved; the topic of an unreachable
\* topic binding is never looked up or subscribed and the function of an
\* unreachable processor is never invoked, and an unreachable binding to an
\* unregistered topic does not fail the pass.
C32_Lazy ==
  hook.pass > 0 =>
    /\ \A k \in 1 .. Len(nodeStreams.built) : nodeStreams.built[k] \in Reachable(topology)
    /\ \A k \in 1 .. Len(nodeStreams.looked) :
         \E id \in Reachable(topology) \cap DOMAIN topology.topics :
           topology.topics[id] = nodeStreams.looked[k]
    /\ \A p \in DOMAIN hook.insts : NodeAt(topology, p) \in Reachable(topology)
    /\ \A k \in 1 .. Len(hook.calls) : hook.calls[k].node \in Reachable(topology)
    /\ (\A id \in Reachable(topology) \cap DOMAIN topology.topics :
          topology.topics[id] \in BusTopics) => hook.status # "error"

\* a pass over a definition with an unreachable binding to an unregistered
\* topic delivered an output
C32_Witness ==
  /\ hook.pass > 0
  /\ \E id \in DOMAIN topology.topics :
       id \notin Reachable(topology) /\ topology.topics[id] \notin BusTopics
  /\ hook.outputs # <<>>
  /\ IsProcessor(topology, topology.outputNode)

\* the kinds of value each validator is to accept
Accepted(validator) ==
  CASE validator = "string" -> {"string"}
    [] validator = "number" -> {"number"}
    [] validator = "boolean" -> {"boolean"}
    [] validator = "object" -> {"object"}
    [] OTHER -> {"array"}

\* C33: the five validator kinds accept exactly these values and reject
\* every other value, null included: string accepts strings, number accepts
\* numbers other than NaN, boolean accepts true and false, object accepts
\* non-null objects that are not arrays, array accepts arrays.  A render
\* with the parameter bound to a value passes validation exactly when the
\* value is of the kind its validator accepts.
C33_Validators ==
  [][\A validator \in ValidatorKinds, kind \in ValueKinds :
       (/\ topology' = Typed(validator)
        /\ hook'.rendered = Bound(kind)
        /\ ~(hook.mounted /\ topology = topology' /\ hook.rendered = hook'.rendered)
        /\ hook'.pass # hook.pass \/ hook'.thrown # hook.thrown)
       => /\ hook'.thrown = "none" <=> kind \in Accepted(validator)
          /\ hook'.thrown = "invalidParameter" <=>
               kind \notin Accepted(validator) \cup {"undefined"}]_vars

\* the object validator rejected null, and the number validator NaN
C33_Witness ==
  /\ hook.thrown = "invalidParameter"
  /\ \/ topology = Typed("object") /\ hook.rendered = Bound("null")
     \/ topology = Typed("number") /\ hook.rendered = Bound("NaN")

\* the payloads a subscriber's callback was called with, in order
PayloadsGot(s) == [i \in 1 .. Len(subs[s].got) |-> subs[s].got[i].payload]

\* C34: getRawStream has the delivery semantics of getStream: a
\* getRawStream subscriber has received envelopes whose payloads are exactly
\* the values a getStream subscriber attached at the same moment has
\* received, in the same order, and nothing before the first real emit on
\* a LatestCached topic.
C34_RawAsStream ==
  Idle => \A s, r \in 1 .. Len(subs) :
    (/\ subs[s].kind = "stream" /\ subs[r].kind = "raw"
     /\ subs[s].topic = subs[r].topic
     /\ subs[s].since = subs[r].since
     /\ ~subs[s].closed /\ ~subs[r].closed)
    => PayloadsGot(r) = PayloadsGot(s)

\* C35: GlobalSamsaraBus.getInstance returns the same bus instance on every
\* call, also after close() has been called on it, so a topic registered
\* through one reference is visible through every other reference.
C35_Singleton ==
  /\ \A r, q \in 1 .. Len(global.references) :
       global.references[r].instance = global.references[q].instance
  /\ \A r \in 1 .. Len(global.references) :
       /\ global.references[r].instance = global.instance
       /\ Through(r)

\* a reference was obtained right after close(), another one before, and a
\* topic is registered
C35_Witness ==
  /\ \E r, q \in 1 .. Len(global.references) :
       /\ r < q
       /\ global.references[q].after = "close"
  /\ Registered("a")

\* C36: a processor with exactly one input, whatever combiner it declares,
\* is invoked once per input emission with the emitted value itself as its
\* only argument before the parameter binding, for every payload value,
\* arrays included.
C36_SingleInput ==
  topology \in SingleDefinitions =>
    ArgsGiven("p") = [k \in 1 .. Len(emitted) |-> <<emitted[k].value>>]

\* how many times the binding was appended to the payload of emission k
Appended(k) == Len(SelectSeq(hook.pushed, LAMBDA n : n = k))

\* C38: running a topology never modifies a payload carried on a topic:
\* the payload of every emission stays the value passed to emit, and no
\* element is appended to an array payload.
C38_PayloadIntact == \A k \in 1 .. Len(emitted) : Appended(k) = 0

\* the emissions of topic t that were retained when since emit calls had
\* been made: the last one of a BehaviorSubject, the last bufferSize of a
\* ReplaySubject
Retained(t, since) ==
  LET subject == topics[t].subject
      depth == CASE subject.type = BehaviorSubject -> Min(since, 1)
                 [] subject.type = ReplaySubject -> Min(since, subject.bufferSize)
                 [] OTHER -> 0
  IN Emitted(t, since - depth, since)

\* the emissions whose payload is neither undefined nor null
Defined(items) == SelectSeq(items, LAMBDA item : item[2] # Undefined /\ item[2] # Null)

EmitCalls ==
  UNION {{[topic |-> t, entry |-> topics[t].log[i]] : i \in 1 .. Len(topics[t].log)} :
           t \in 1 .. Len(topics)}

EmitCall(seq) == CHOOSE c \in EmitCalls : c.entry.env.seq = seq

\* the emit calls during whose delivery, through connections, emit call seq
\* was made
RECURSIVE Origins(_)
Origins(seq) ==
  IF EmitCall(seq).entry.by = 0 THEN {}
  ELSE {EmitCall(seq).entry.cause} \cup Origins(EmitCall(seq).entry.cause)

\* C40: with total mappers a single emit call triggers only finitely many
\* emissions and then returns, whatever the connections: no emission of a
\* topic triggers, through the connections, another emission of the same
\* topic (which would trigger the next one in the same way, without end).
C40_Terminates ==
  \A t \in 1 .. Len(topics) : \A i \in 1 .. Len(topics[t].log) :
    \A origin \in Origins(topics[t].log[i].env.seq) : EmitCall(origin).topic # t

============================================================================
